---------------------------- MODULE Spec2Model ----------------------------
(***************************************************************************)
(* A model of pyparams: the parameter records, the document reconciler,    *)
(* the tree scanner and rewriter, and the source-unit lookup.              *)
(*                                                                         *)
(* Strings that the code takes apart (scopes, full names) are sequences of *)
(* symbols; the symbol "/" is the path separator and every other symbol    *)
(* stands for one separator-free piece of text.  Names of declarations are *)
(* identifiers, hence single symbols.                                      *)
(***************************************************************************)
EXTENDS Integers, Sequences, FiniteSets, TLC

VARIABLES
    config_params,   \* the parameter list being reconciled (List[NamedPyParam])
    source_code,     \* the source unit being scanned and rewritten (its tree)
    config,          \* the document read back by read_yaml_file; the text
                     \* of a document, or the output file, where files are
                     \* modelled
    search_folders,  \* the folders find_module_source searches
    call             \* the last operation: its inputs and its result

vars == <<config_params, source_code, config, search_folders, call>>

-----------------------------------------------------------------------------
(* Bounds of the model *)

\* longest parameter list the reconciler starts from
MaxParams == 2
\* add_scope is applied only while every scope is at most this long
MaxScopeLen == 1
\* longest list of search folders
MaxFolders == 3
\* most files of one folder tree that match the unit's relative path
MaxMatches == 2

\* statements in the body of a source unit
MaxBody == 2

\* entries deleted from a document
MaxDeleted == 1

-----------------------------------------------------------------------------
(* Sequences *)

Last(s) == s[Len(s)]

Range(s) == {s[i] : i \in 1..Len(s)}

SeqsUpTo(S, n) == UNION {[1..k -> S] : k \in 0..n}

RECURSIVE Concat(_)
Concat(ss) ==
    IF ss = <<>> THEN <<>>
    ELSE IF Len(ss) = 1 THEN ss[1]
    ELSE Concat(SubSeq(ss, 1, Len(ss) \div 2))
            \o Concat(SubSeq(ss, Len(ss) \div 2 + 1, Len(ss)))

-----------------------------------------------------------------------------
(* Path/scope algebra *)

SEP == "/"

\* posixpath.join(a, b), as NamedPyParam.full_name uses it
PathJoin(a, b) ==
    IF b # <<>> /\ Head(b) = SEP THEN b
    ELSE IF a = <<>> \/ Last(a) = SEP THEN a \o b
    ELSE a \o <<SEP>> \o b

\* str.split("/"): the pieces between separators, empty pieces included
RECURSIVE StrSplit(_)
StrSplit(s) ==
    IF \A i \in 1..Len(s) : s[i] # SEP THEN <<s>>
    ELSE LET i == CHOOSE i \in 1..Len(s) :
                      s[i] = SEP /\ \A j \in 1..(i-1) : s[j] # SEP
         IN <<SubSeq(s, 1, i-1)>> \o StrSplit(SubSeq(s, i+1, Len(s)))

\* "/".join(pieces)
RECURSIVE StrJoin(_)
StrJoin(pieces) ==
    IF pieces = <<>> THEN <<>>
    ELSE IF Len(pieces) = 1 THEN pieces[1]
    ELSE pieces[1] \o <<SEP>> \o StrJoin(Tail(pieces))

-----------------------------------------------------------------------------
(* Parameter records *)

VERSION_PARAM_KEY_NAME == "version"

\* the keys of _str_to_dtype
DTypes == {"int", "str", "float", "tuple", "list", "dict", "set", "bool"}

\* a runtime value: its Python type and an abstract payload
Value(t, v) == [type |-> t, val |-> v]

PyParam(value, dtype, scope, desc) ==
    [value |-> value, dtype |-> dtype, scope |-> scope, desc |-> desc]

NamedPyParam(name, param) == [name |-> name, param |-> param]

full_name(p) == PathJoin(p.param.scope, <<p.name>>)

param_replace_value(p, v) ==
    NamedPyParam(p.name, PyParam(v, p.param.dtype, p.param.scope, p.param.desc))

param_replace_scope(p, sc) ==
    NamedPyParam(p.name, PyParam(p.param.value, p.param.dtype, sc, p.param.desc))

-----------------------------------------------------------------------------
(* Results of operations that may raise *)

NoError == [type |-> "none", key |-> <<>>, known |-> <<>>]

Ok(v) == [ok |-> TRUE, val |-> v, err |-> NoError]

Raise(type, key, known) ==
    [ok |-> FALSE, val |-> <<>>, err |-> [type |-> type, key |-> key, known |-> known]]

-----------------------------------------------------------------------------
(* The dict {p.full_name: p for p in params}: a key keeps the place of its  *)
(* first occurrence and the value of its last one.                          *)

FullNames(params) == [i \in 1..Len(params) |-> full_name(params[i])]

IsFirst(params, i) == \A j \in 1..(i-1) : full_name(params[j]) # full_name(params[i])

LastIndexOf(params, k) ==
    CHOOSE i \in 1..Len(params) :
        /\ full_name(params[i]) = k
        /\ \A j \in (i+1)..Len(params) : full_name(params[j]) # k

RECURSIVE FirstIndices(_, _)
FirstIndices(params, i) ==
    IF i > Len(params) THEN <<>>
    ELSE (IF IsFirst(params, i) THEN <<i>> ELSE <<>>) \o FirstIndices(params, i + 1)

ParamsDict(params) ==
    LET idx == FirstIndices(params, 1)
    IN [n \in 1..Len(idx) |->
          [key |-> full_name(params[idx[n]]),
           val |-> params[LastIndexOf(params, full_name(params[idx[n]]))]]]

DictKeys(d) == [n \in 1..Len(d) |-> d[n].key]

DictValues(d) == [n \in 1..Len(d) |-> d[n].val]

DictHas(d, k) == \E n \in 1..Len(d) : d[n].key = k

DictGet(d, k) == d[CHOOSE n \in 1..Len(d) : d[n].key = k].val

\* d[k] = v for a key the dict has: the key keeps its place
DictSet(d, k, v) ==
    [n \in 1..Len(d) |-> IF d[n].key = k THEN [key |-> k, val |-> v] ELSE d[n]]

-----------------------------------------------------------------------------
(* Document reconciler: replace_param, replace_params, get_param, add_scope *)

\* replace_param as a pop-and-reinsert would do it: the key moves to the end
replace_param_moves_key(param, params, ignore_missing_keys) ==
    LET config_params_dict == ParamsDict(params)
        key == full_name(param)
    IN IF ~DictHas(config_params_dict, key)
       THEN IF ~ignore_missing_keys
            THEN Raise("ValueError", key, DictKeys(config_params_dict))
            ELSE Ok(params)
       ELSE Ok(SelectSeq(DictValues(config_params_dict),
                         LAMBDA q : full_name(q) # key) \o <<param>>)

\* replace_param copying only the value into the old entry
replace_param_value_only(param, params, ignore_missing_keys) ==
    LET config_params_dict == ParamsDict(params)
        key == full_name(param)
    IN IF ~DictHas(config_params_dict, key)
       THEN IF ~ignore_missing_keys
            THEN Raise("ValueError", key, DictKeys(config_params_dict))
            ELSE Ok(params)
       ELSE IF key # <<VERSION_PARAM_KEY_NAME>>
            THEN Ok(DictValues(DictSet(config_params_dict, key,
                       param_replace_value(DictGet(config_params_dict, key),
                                           param.param.value))))
            ELSE Ok(DictValues(config_params_dict))

\* replace_param adding an unknown key in permissive mode
replace_param_adds_missing(param, params, ignore_missing_keys) ==
    LET config_params_dict == ParamsDict(params)
        key == full_name(param)
    IN IF ~DictHas(config_params_dict, key)
       THEN IF ~ignore_missing_keys
            THEN Raise("ValueError", key, DictKeys(config_params_dict))
            ELSE Ok(params \o <<param>>)
       ELSE IF key # <<VERSION_PARAM_KEY_NAME>>
            THEN Ok(DictValues(DictSet(config_params_dict, key, param)))
            ELSE Ok(DictValues(config_params_dict))

replace_param(param, params, ignore_missing_keys) ==
    LET config_params_dict == ParamsDict(params)
        key == full_name(param)
    IN IF ~DictHas(config_params_dict, key)
       THEN IF ~ignore_missing_keys
            THEN Raise("ValueError", key, DictKeys(config_params_dict))
            ELSE Ok(params)
       ELSE IF key # <<VERSION_PARAM_KEY_NAME>>
            THEN Ok(DictValues(DictSet(config_params_dict, key, param)))
            ELSE Ok(DictValues(config_params_dict))

RECURSIVE replace_params(_, _, _)
replace_params(params_to_replace, params, ignore_missing_keys) ==
    IF params_to_replace = <<>> THEN Ok(params)
    ELSE LET r == replace_param(Head(params_to_replace), params, ignore_missing_keys)
         IN IF r.ok
            THEN replace_params(Tail(params_to_replace), r.val, ignore_missing_keys)
            ELSE r

get_param(key, params) ==
    LET config_params_dict == ParamsDict(params)
    IN IF ~DictHas(config_params_dict, key)
       THEN Raise("ValueError", key, DictKeys(config_params_dict))
       ELSE Ok(<<DictGet(config_params_dict, key)>>)

\* add_scope leaving out the separator over an empty inner scope
add_scope_normalized(scope, params) ==
    [i \in 1..Len(params) |->
        param_replace_scope(params[i],
            IF params[i].param.scope = <<>> THEN scope
            ELSE scope \o <<SEP>> \o params[i].param.scope)]

add_scope(scope, params) ==
    [i \in 1..Len(params) |->
        param_replace_scope(params[i], scope \o <<SEP>> \o params[i].param.scope)]

-----------------------------------------------------------------------------
(* The reconciler as a state machine: a caller holds a parameter list and   *)
(* rebinds it to the result of each call, as the tests and                  *)
(* substitute_config do.                                                    *)

Names == {"x", VERSION_PARAM_KEY_NAME}

Scopes == {<<>>, <<"loop">>}

\* the records a declaration or a document entry may carry
Records ==
    { [value |-> Value("int", 1), dtype |-> "int", desc |-> ""],
      [value |-> Value("str", 2), dtype |-> "str", desc |-> "d"] }

ParamUniverse ==
    { NamedPyParam(n, PyParam(r.value, r.dtype, sc, r.desc)) :
        n \in Names, sc \in Scopes, r \in Records }

Prefixes == {<<"test">>}

\* the other record of Records
OtherRecord(param) == CHOOSE r \in Records : r.value # param.value

\* what a caller passes as the new param: a param of another document, or
\* an entry of the list with another record
\* (get_param(...).param_replace(...))
ReplaceCandidates(params) ==
    { p \in ParamUniverse : p.param.desc = "d" } \cup
    { NamedPyParam(params[i].name,
                   PyParam(OtherRecord(params[i].param).value,
                           OtherRecord(params[i].param).dtype,
                           params[i].param.scope,
                           OtherRecord(params[i].param).desc)) :
        i \in 1..Len(params) }

NoCall == [op |-> "init"]

EmptyModule == <<>>

\* OrderedDict(): a document with no entries
OrderedDict ==
    [leaf |-> FALSE, has_scope |-> FALSE,
     rec |-> PyParam(Value("none", 0), "none", <<>>, ""), kids |-> <<>>]

InitReconcile ==
    /\ config_params \in SeqsUpTo(ParamUniverse, MaxParams)
    /\ source_code = EmptyModule
    /\ config = OrderedDict
    /\ search_folders = <<>>
    /\ call = NoCall

ReplaceParam ==
    \E param \in ReplaceCandidates(config_params), ignore_missing_keys \in BOOLEAN :
        LET res == replace_param(param, config_params, ignore_missing_keys)
        IN /\ call' = [op |-> "replace_param", param |-> param,
                       ignore_missing_keys |-> ignore_missing_keys,
                       old |-> config_params, res |-> res]
           /\ config_params' = IF res.ok THEN res.val ELSE config_params
           /\ UNCHANGED <<source_code, config, search_folders>>

\* the lists replace_params is called with: two params of another document
ParamsToReplace ==
    [1..2 -> { NamedPyParam("x", PyParam(Value("str", 2), "str", <<>>, "d")),
               NamedPyParam(VERSION_PARAM_KEY_NAME,
                            PyParam(Value("str", 2), "str", <<"loop">>, "d")) }]

ReplaceParams ==
    \E params_to_replace \in ParamsToReplace, ignore_missing_keys \in BOOLEAN :
        LET res == replace_params(params_to_replace, config_params, ignore_missing_keys)
        IN /\ call' = [op |-> "replace_params", params_to_replace |-> params_to_replace,
                       ignore_missing_keys |-> ignore_missing_keys,
                       old |-> config_params, res |-> res]
           /\ config_params' = IF res.ok THEN res.val ELSE config_params
           /\ UNCHANGED <<source_code, config, search_folders>>

GetParam ==
    \E key \in {full_name(p) : p \in ReplaceCandidates(config_params)} :
        /\ call' = [op |-> "get_param", key |-> key,
                    old |-> config_params, res |-> get_param(key, config_params)]
        /\ UNCHANGED <<config_params, source_code, config, search_folders>>

AddScope ==
    \E scope \in Prefixes :
        /\ \A i \in 1..Len(config_params) : Len(config_params[i].param.scope) <= MaxScopeLen
        /\ call' = [op |-> "add_scope", scope |-> scope, old |-> config_params,
                    res |-> Ok(add_scope(scope, config_params))]
        /\ config_params' = add_scope(scope, config_params)
        /\ UNCHANGED <<source_code, config, search_folders>>

NextReconcile == ReplaceParam \/ ReplaceParams \/ GetParam \/ AddScope

Spec == InitReconcile /\ [][NextReconcile]_vars

-----------------------------------------------------------------------------
(* Claims about the reconciler *)

Distinct(params) ==
    \A i, j \in 1..Len(params) : full_name(params[i]) = full_name(params[j]) => i = j

Present(key, params) == \E i \in 1..Len(params) : full_name(params[i]) = key

\* the call was replace_param with a key the old list has
ReplacedPresent ==
    /\ call.op = "replace_param"
    /\ Present(full_name(call.param), call.old)

\* the result keeps the length, every key's index, and every other entry
KeepsOrder ==
    /\ call.res.ok
    /\ Len(call.res.val) = Len(call.old)
    /\ \A i \in 1..Len(call.old) :
          /\ i <= Len(call.res.val)
          /\ full_name(call.res.val[i]) = full_name(call.old[i])
          /\ full_name(call.old[i]) # full_name(call.param)
                => call.res.val[i] = call.old[i]

\* C4 as stated: replace_param on a list of N params with a key the list
\* has returns N entries, the replaced key at its original index and every
\* other entry unchanged at its index.
C4_Original == ReplacedPresent => KeepsOrder

\* C4, amended: the same for a list whose full_names are pairwise distinct
\* (a list holding a full_name twice comes back with one entry for it).
C4_ReplaceKeepsOrder == (ReplacedPresent /\ Distinct(call.old)) => KeepsOrder

\* a two-entry list whose first entry was replaced by another record
C4_Witness ==
    /\ ReplacedPresent
    /\ Distinct(call.old)
    /\ Len(call.old) = 2
    /\ full_name(call.old[1]) = full_name(call.param)
    /\ call.old[1] # call.param
    /\ call.res.ok
    /\ call.res.val[1] = call.param

\* the result holds the key exactly once, with the new param as its entry
ReplacedWholesale ==
    /\ call.res.ok
    /\ Present(full_name(call.param), call.res.val)
    /\ \A i \in 1..Len(call.res.val) :
          full_name(call.res.val[i]) = full_name(call.param)
             => call.res.val[i] = call.param

\* C5 as stated: whatever the key, if the old list has it the result's
\* entry for it is exactly the new param.
C5_Original == ReplacedPresent => ReplacedWholesale

\* C5, amended: for every key other than the root-level "version" the
\* result's entry for the key is exactly the new param; the entry of the
\* key "version" is left as it was.
C5_ReplacedWholesale ==
    ReplacedPresent =>
        IF full_name(call.param) # <<VERSION_PARAM_KEY_NAME>>
        THEN ReplacedWholesale
        ELSE /\ call.res.ok
             /\ call.res.val = DictValues(ParamsDict(call.old))

\* a present key other than "version" whose record changed in every field
C5_Witness ==
    /\ ReplacedPresent
    /\ full_name(call.param) # <<VERSION_PARAM_KEY_NAME>>
    /\ \E i \in 1..Len(call.old) :
          /\ full_name(call.old[i]) = full_name(call.param)
          /\ call.old[i].param.value # call.param.param.value
          /\ call.old[i].param.dtype # call.param.param.dtype
          /\ call.old[i].param.desc # call.param.param.desc
    /\ call.res.ok

\* C6: replace_param with a key the list lacks: strict mode raises an error
\* naming the known keys; permissive mode returns the input list, so the
\* key is not added and get_param for it fails.
C6_MissingKey ==
    (call.op = "replace_param" /\ ~Present(full_name(call.param), call.old)) =>
        IF ~call.ignore_missing_keys
        THEN /\ ~call.res.ok
             /\ call.res.err.type = "ValueError"
             /\ call.res.err.key = full_name(call.param)
             /\ Range(call.res.err.known) = Range(FullNames(call.old))
             /\ config_params = call.old
        ELSE /\ call.res.ok
             /\ call.res.val = call.old
             /\ ~get_param(full_name(call.param), call.res.val).ok

\* a permissive call with an unknown key on a non-empty list
C6_Witness ==
    /\ call.op = "replace_param"
    /\ ~Present(full_name(call.param), call.old)
    /\ call.ignore_missing_keys
    /\ Len(call.old) = 2
    /\ call.res.ok

\* C7: add_scope keeps length, order, name, value, dtype and desc, sets
\* each scope to prefix, "/", old scope (the separator also over an empty
\* scope), and the full_name becomes the prefix, "/", the old full_name.
C7_AddScope ==
    call.op = "add_scope" =>
        /\ Len(call.res.val) = Len(call.old)
        /\ \A i \in 1..Len(call.old) :
              LET old == call.old[i]
                  new == call.res.val[i]
              IN /\ new.name = old.name
                 /\ new.param.value = old.param.value
                 /\ new.param.dtype = old.param.dtype
                 /\ new.param.desc = old.param.desc
                 /\ new.param.scope = call.scope \o <<SEP>> \o old.param.scope
                 /\ old.param.scope = <<>> => Last(new.param.scope) = SEP
                 /\ full_name(new) = call.scope \o <<SEP>> \o full_name(old)

\* add_scope over a list with an empty scope and the scope "loop"
C7_Witness ==
    /\ call.op = "add_scope"
    /\ call.scope = <<"test">>
    /\ \E i, j \in 1..Len(call.old) :
          /\ call.old[i].param.scope = <<>>
          /\ call.res.val[i].param.scope = <<"test", SEP>>
          /\ call.old[j].param.scope = <<"loop">>
          /\ call.res.val[j].param.scope = <<"test", SEP, "loop">>

-----------------------------------------------------------------------------
(* Source-unit lookup.  A search folder is the sequence of the texts of    *)
(* the files under it that match the unit's relative path, in the order    *)
(* rglob meets them; a folder that does not hold the unit is empty.        *)

UnitTexts == {"A", "B"}

Folders == SeqsUpTo(UnitTexts, MaxMatches)

\* PyParamModule.module_source: the first match, or FileNotFoundError
module_source(base_path) ==
    IF base_path # <<>> THEN Ok(Head(base_path))
    ELSE Raise("FileNotFoundError", <<>>, <<>>)

\* the loop of find_module_source over folders[i..]: `sources` collects
\* the texts found; only a ValueError of module_source is caught
RECURSIVE FindLoop(_, _, _)
FindLoop(folders, i, sources) ==
    IF i > Len(folders) THEN Ok(sources)
    ELSE LET r == module_source(folders[i])
         IN IF r.ok THEN FindLoop(folders, i + 1, Append(sources, r.val))
            ELSE IF r.err.type = "ValueError" THEN FindLoop(folders, i + 1, sources)
            ELSE r

find_module_source(folders) ==
    LET found == FindLoop(folders, 1, <<>>)
    IN IF ~found.ok THEN found
       ELSE IF Len(found.val) = 0 THEN Raise("FileNotFoundError", <<>>, <<>>)
       ELSE IF Len(found.val) > 1 THEN Raise("ValueError", <<>>, <<>>)
       ELSE Ok(found.val[1])

InitLookup ==
    /\ search_folders \in SeqsUpTo(Folders, MaxFolders)
    /\ config_params = <<>>
    /\ source_code = EmptyModule
    /\ config = OrderedDict
    /\ call = NoCall

FindModuleSource ==
    /\ call.op = "init"
    /\ call' = [op |-> "find_module_source", res |-> find_module_source(search_folders)]
    /\ UNCHANGED <<config_params, source_code, config, search_folders>>

NextLookup == FindModuleSource

SpecLookup == InitLookup /\ [][NextLookup]_vars

\* the folders of the search path that hold the unit
Holding == {i \in 1..Len(search_folders) : search_folders[i] # <<>>}

\* C10 as stated: the lookup returns the unit's text when exactly one
\* folder of the list holds the unit, wherever it is in the list; it fails
\* with a not-found error when none does and with an ambiguity error when
\* more than one does.
C10_Original ==
    call.op = "find_module_source" =>
        /\ Cardinality(Holding) = 1 =>
              /\ call.res.ok
              /\ \A i \in Holding : call.res.val = Head(search_folders[i])
        /\ Cardinality(Holding) = 0 =>
              ~call.res.ok /\ call.res.err.type = "FileNotFoundError"
        /\ Cardinality(Holding) > 1 =>
              ~call.res.ok /\ call.res.err.type = "ValueError"

-----------------------------------------------------------------------------
(* The parsed tree of a source unit.  Every expression and statement has   *)
(* one record shape; fields a node kind does not use hold NoRec, <<>> or   *)
(* "".  A node's identity is its path from the module: the index of a      *)
(* statement in its body, then 0 for an assignment's value, -j for the     *)
(* j-th default of a function or the j-th positional argument of a call,   *)
(* and j for the j-th keyword of a call.  A statement holds the column of  *)
(* its first character.                                                    *)

NoRec == [value |-> Value("none", 0), dtype |-> "none", scope |-> <<>>, desc |-> ""]

\* a literal (ast.Num, ast.Str, ast.Tuple, ...) of the given value
Lit(v) ==
    [kind |-> "Lit", attr |-> FALSE, func |-> "",
     rec |-> [value |-> v, dtype |-> "none", scope |-> <<>>, desc |-> ""],
     args |-> <<>>, keywords |-> <<>>, path |-> <<>>]

\* a call f(*args, **keywords); attr: the callee is an attribute (m.f)
Call(func, attr, args, keywords) ==
    [kind |-> "Call", attr |-> attr, func |-> func, rec |-> NoRec,
     args |-> args, keywords |-> keywords, path |-> <<>>]

\* the call PyParam(value, dtype, scope, desc) with the arguments as written
\* (dtype "none": not given)
Marker(rec) ==
    [kind |-> "Call", attr |-> FALSE, func |-> "PyParam", rec |-> rec,
     args |-> <<>>, keywords |-> <<>>, path |-> <<>>]

\* a piece of source text that stands where an expression does: ast.Module
\* with a str body, which astor writes out as it is
RawText(text) ==
    [kind |-> "Raw", attr |-> FALSE, func |-> "", rec |-> NoRec,
     args |-> <<>>, keywords |-> <<>>, path |-> text]

Keyword(arg, value) == [arg |-> arg, value |-> value]

NoExpr == Lit(Value("none", 0))

AnnAssign(target, value) ==
    [kind |-> "AnnAssign", target |-> target, value |-> value,
     args |-> <<>>, defaults |-> <<>>, body |-> <<>>, col_offset |-> 0]

Assign(target, value) ==
    [kind |-> "Assign", target |-> target, value |-> value,
     args |-> <<>>, defaults |-> <<>>, body |-> <<>>, col_offset |-> 0]

ExprStmt(value) ==
    [kind |-> "Expr", target |-> "", value |-> value,
     args |-> <<>>, defaults |-> <<>>, body |-> <<>>, col_offset |-> 0]

FunctionDef(name, args, defaults, body) ==
    [kind |-> "FunctionDef", target |-> name, value |-> NoExpr,
     args |-> args, defaults |-> defaults, body |-> body, col_offset |-> 0]

ClassDef(name, body) ==
    [kind |-> "ClassDef", target |-> name, value |-> NoExpr,
     args |-> <<>>, defaults |-> <<>>, body |-> body, col_offset |-> 0]

\* element.__dict__.get("body") is not None
HasBody(element) == element.kind \in {"FunctionDef", "ClassDef"}

\* the arg the j-th default belongs to: zip(args[-num_defaults:], defaults)
DefaultArg(element, j) ==
    element.args[Len(element.args) - Len(element.defaults) + j]

-----------------------------------------------------------------------------
(* Value codec and PyParam.compile *)

\* ast_node_to_value of a literal: a tuple literal gives a list
ast_node_to_value(v) == IF v.type = "tuple" THEN Value("list", v.val) ELSE v

Scalars == {"int", "float", "bool", "str"}

Iterables == {"tuple", "list", "set", "dict", "str"}

\* whether dtype(value) returns for a value of the given type
Coercible(dtype, type) ==
    \/ dtype \in {"str", "bool"}
    \/ dtype \in {"int", "float"} /\ type \in Scalars
    \/ dtype \in {"tuple", "list", "set"} /\ type \in Iterables
    \/ dtype = "dict" /\ type = "dict"

\* PyParam.compile on a record whose dtype is None ("none") or a string
compile(param) ==
    IF param.dtype = "none"
    THEN Ok(PyParam(param.value, param.value.type, param.scope, param.desc))
    ELSE IF param.dtype \notin DTypes \/ ~Coercible(param.dtype, param.value.type)
    THEN Raise("ValueError", <<>>, <<>>)
    ELSE Ok(PyParam(Value(param.dtype, param.value.val), param.dtype,
                    param.scope, param.desc))

\* value_to_ast_node(value, dtype): the literal of the declared type, or
\* for dtype == type the value as a piece of source text
value_to_ast_node(value, dtype) ==
    IF dtype \in {"int", "float", "bool", "str", "list", "tuple", "dict"}
    THEN Ok(Lit(Value(dtype, value.val)))
    ELSE IF dtype = "type" THEN Ok(RawText(value.val))
    ELSE Raise("ValueError", <<>>, <<>>)

\* PyParam.render_as_ast_node: the text of the record's constructor call,
\* which parses as a marker call with every field given by keyword
render_as_ast_node(param) ==
    IF param.dtype \in DTypes
    THEN Ok(Marker(PyParam(param.value, param.dtype, param.scope, param.desc)))
    ELSE Raise("KeyError", <<>>, <<>>)

-----------------------------------------------------------------------------
(* Tree scanner: find_pyparams_assignments_nodes *)

\* a found declaration: the assignment node (a statement of the tree, or
\* one the scanner made up for a default or a keyword), its name and the
\* call it assigns
Site(real, stmt, kind, target, value, vpath) ==
    [real |-> real, stmt |-> stmt, kind |-> kind, target |-> target,
     value |-> value, vpath |-> vpath]

\* lines 129-153 on one assignment element
RECURSIVE ScanAssign(_, _, _, _, _, _, _)
ScanAssign(real, stmt, kind, target, value, vpath, op_name) ==
    IF value.kind = "Call" /\ ~value.attr
    THEN IF value.func = op_name
         THEN <<Site(real, stmt, kind, target, value, vpath)>>
         ELSE Concat([j \in 1..Len(value.keywords) |->
                 ScanAssign(FALSE, vpath \o <<j>>, "Assign",
                            value.keywords[j].arg, value.keywords[j].value,
                            vpath \o <<j>>, op_name)])
    ELSE <<>>

RECURSIVE find_pyparams_assignments_nodes(_, _, _)
find_pyparams_assignments_nodes(body, path, op_name) ==
    Concat([i \in 1..Len(body) |->
        LET element == body[i]
            p == path \o <<i>>
        IN (IF HasBody(element)
            THEN find_pyparams_assignments_nodes(element.body, p, op_name)
            ELSE <<>>)
           \o
           (IF element.kind = "FunctionDef"
            THEN Concat([j \in 1..Len(element.defaults) |->
                    ScanAssign(FALSE, p \o <<-j>>, "Assign", DefaultArg(element, j),
                               element.defaults[j], p \o <<-j>>, op_name)])
            ELSE <<>>)
           \o
           (IF element.kind \in {"AnnAssign", "Assign"}
            THEN ScanAssign(TRUE, p, element.kind, element.target, element.value,
                            p \o <<0>>, op_name)
            ELSE <<>>)])

\* ast_node_to_value on the arguments of the marker call
parse_args_kwargs_from_node(site) ==
    PyParam(ast_node_to_value(site.value.rec.value), site.value.rec.dtype,
            site.value.rec.scope, site.value.rec.desc)

\* NamedPyParam.from_ast_node
from_ast_node(site) ==
    LET r == compile(parse_args_kwargs_from_node(site))
    IN IF r.ok THEN Ok(NamedPyParam(site.target, r.val)) ELSE r

\* [NamedPyParam.from_ast_node(node) for node in nodes]: the list, or the
\* first error raised
RECURSIVE FromAstNodes(_)
FromAstNodes(nodes) ==
    IF nodes = <<>> THEN Ok(<<>>)
    ELSE LET r == from_ast_node(Head(nodes))
         IN IF ~r.ok THEN r
            ELSE LET rest == FromAstNodes(Tail(nodes))
                 IN IF rest.ok THEN Ok(<<r.val>> \o rest.val) ELSE rest

get_all_pyparams_from_source_code(source) ==
    FromAstNodes(find_pyparams_assignments_nodes(source, <<>>, "PyParam"))

-----------------------------------------------------------------------------
(* The document: a tree of dicts.  A dict holds the record fields of a     *)
(* leaf (leaf: the keys "dtype" and "value" are there; has_scope: the key  *)
(* "scope" is there; an empty desc: the key "desc" is not there) and its   *)
(* other keys in insertion order (kids).  Parameter and scope names are    *)
(* never "value", "dtype", "desc" or "scope".                              *)

\* PyParam.to_dict
to_dict(named_param) ==
    [leaf |-> TRUE, has_scope |-> FALSE,
     rec |-> PyParam(named_param.param.value, named_param.param.dtype, <<>>,
                     named_param.param.desc),
     kids |-> <<>>]

\* config[key] = node
SetItem(cfg, key, node) ==
    [cfg EXCEPT !.kids =
        IF DictHas(cfg.kids, key) THEN DictSet(cfg.kids, key, node)
        ELSE Append(cfg.kids, [key |-> key, val |-> node])]

\* config[key], after "if key not in config: config[key] = OrderedDict()"
SetDefault(cfg, key) ==
    IF DictHas(cfg.kids, key) THEN DictGet(cfg.kids, key) ELSE OrderedDict

RECURSIVE insert_node(_, _, _)
insert_node(sc, param, cfg) ==
    LET nodes == StrSplit(sc)
    IN IF Len(nodes) > 1
       THEN SetItem(cfg, nodes[1],
                    insert_node(StrJoin(Tail(nodes)), param, SetDefault(cfg, nodes[1])))
       ELSE IF Len(sc) > 0
       THEN SetItem(cfg, sc,
                    SetItem(SetDefault(cfg, sc), <<param.name>>, to_dict(param)))
       ELSE SetItem(cfg, <<param.name>>, to_dict(param))

RECURSIVE InsertAll(_, _)
InsertAll(items, cfg) ==
    IF items = <<>> THEN cfg
    ELSE LET pieces == StrSplit(Head(items).key)
             head == StrJoin(SubSeq(pieces, 1, Len(pieces) - 1))
         IN InsertAll(Tail(items), insert_node(head, Head(items).val, cfg))

\* the dict params_to_yaml_config hands to the YAML writer
params_to_yaml_config(params) ==
    InsertAll(ParamsDict(params), OrderedDict)

\* the YAML text of a value, loaded again: the safe dumper writes a tuple
\* as a sequence, which loads as a list
YamlValue(v) == IF v.type = "tuple" THEN Value("list", v.val) ELSE v

\* read_yaml_file of the file pyparams_ordered_yaml_dump writes: mappings
\* keep their keys and, for OrderedDicts, their order; a one-line desc goes
\* to a comment and back
RECURSIVE read_yaml_file(_)
read_yaml_file(cfg) ==
    [leaf |-> cfg.leaf, has_scope |-> cfg.has_scope,
     rec |-> [cfg.rec EXCEPT !.value = YamlValue(cfg.rec.value)],
     kids |-> [n \in 1..Len(cfg.kids) |->
                 [key |-> cfg.kids[n].key,
                  val |-> read_yaml_file(cfg.kids[n].val)]]]

_is_end_node(node) == node.leaf

\* NamedPyParam.from_dict: PyParam(**config).compile()
from_dict(name, node) ==
    IF node.kids # <<>> THEN Raise("TypeError", <<>>, <<>>)
    ELSE LET r == compile(PyParam(node.rec.value, node.rec.dtype,
                                  node.rec.scope, node.rec.desc))
         IN IF r.ok THEN Ok(NamedPyParam(name, r.val)) ELSE r

\* the loop of read_params_from_config over config.items(): the params (or
\* the error), and the items as the loop leaves them, the end nodes it
\* visited holding the key "scope"
RECURSIVE ReadItems(_, _)
ReadItems(items, _root_name) ==
    IF items = <<>> THEN [res |-> Ok(<<>>), items |-> <<>>]
    ELSE LET name == Head(items).key
             node == Head(items).val
             first ==
                IF _is_end_node(node)
                THEN LET scoped == [node EXCEPT
                                      !.rec.scope = StrJoin(Tail(StrSplit(_root_name))),
                                      !.has_scope = TRUE]
                     IN [res |-> LET r == from_dict(name[1], scoped)
                                 IN IF r.ok THEN Ok(<<r.val>>) ELSE r,
                         node |-> scoped]
                ELSE LET sub == ReadItems(node.kids, StrJoin(<<_root_name, name>>))
                     IN [res |-> sub.res, node |-> [node EXCEPT !.kids = sub.items]]
             entry == <<[key |-> name, val |-> first.node]>>
         IN IF ~first.res.ok
            THEN [res |-> first.res, items |-> entry \o Tail(items)]
            ELSE LET rest == ReadItems(Tail(items), _root_name)
                 IN [res |-> IF rest.res.ok
                             THEN Ok(first.res.val \o rest.res.val)
                             ELSE rest.res,
                     items |-> entry \o rest.items]

read_params_from_config(cfg) == ReadItems(cfg.kids, <<>>).res

\* the dict as read_params_from_config leaves it
ConfigAfterRead(cfg) ==
    [cfg EXCEPT !.kids = ReadItems(cfg.kids, <<>>).items]

-----------------------------------------------------------------------------
(* Rewriter: compile_source_code and update_source_pyparams *)

\* named_nodes[key] of get_source_params_assignments: the last declaration
\* of that full name
NamedNode(nodes, pyparams, key) == nodes[LastIndexOf(pyparams, key)]

\* node_to_param as the list of its assignments, oldest first
MapHasNode(node_to_param, stmt) ==
    \E n \in 1..Len(node_to_param) :
        node_to_param[n].node.real /\ node_to_param[n].node.stmt = stmt

MapByNode(node_to_param, stmt) ==
    node_to_param[CHOOSE n \in 1..Len(node_to_param) :
        /\ node_to_param[n].node.real /\ node_to_param[n].node.stmt = stmt
        /\ \A m \in (n+1)..Len(node_to_param) :
              ~(node_to_param[m].node.real /\ node_to_param[m].node.stmt = stmt)].param

\* some n of node_to_param has n.value == the expression at vpath
MapHasValue(node_to_param, vpath) ==
    \E n \in 1..Len(node_to_param) : node_to_param[n].node.vpath = vpath

MapByValue(node_to_param, vpath) ==
    node_to_param[CHOOSE n \in 1..Len(node_to_param) :
        /\ node_to_param[n].node.vpath = vpath
        /\ \A m \in (n+1)..Len(node_to_param) :
              node_to_param[m].node.vpath # vpath].param

\* what stands in the tree where building a node raised
Raised ==
    [kind |-> "Raised", attr |-> FALSE, func |-> "", rec |-> NoRec,
     args |-> <<>>, keywords |-> <<>>, path |-> <<>>]

\* NamedPyParam.to_ast_node
to_ast_node(named_param) ==
    LET r == value_to_ast_node(named_param.param.value, named_param.param.dtype)
    IN IF r.ok THEN r.val ELSE Raised

\* DefaultASTTransformer.visit_AnnAssign
visit_AnnAssign(node, p, node_to_param) ==
    IF MapHasNode(node_to_param, p)
    THEN [node EXCEPT !.value = to_ast_node(MapByNode(node_to_param, p))]
    ELSE node

\* DefaultASTTransformer.visit_Assign
visit_Assign(node, p, node_to_param) ==
    IF MapHasNode(node_to_param, p)
    THEN [node EXCEPT !.value = to_ast_node(MapByNode(node_to_param, p))]
    ELSE IF node.value.kind = "Call" /\ Len(node.value.keywords) > 0
    THEN [node EXCEPT !.value.keywords =
            [j \in 1..Len(node.value.keywords) |->
                IF MapHasValue(node_to_param, p \o <<0, j>>)
                THEN Keyword(node.value.keywords[j].arg,
                             to_ast_node(MapByValue(node_to_param, p \o <<0, j>>)))
                ELSE node.value.keywords[j]]]
    ELSE node

\* the new_defaults of DefaultASTTransformer.visit_FunctionDef
new_defaults(node, p, node_to_param) ==
    Concat([j \in 1..Len(node.defaults) |->
        IF MapHasValue(node_to_param, p \o <<-j>>)
        THEN <<to_ast_node(MapByValue(node_to_param, p \o <<-j>>))>>
        ELSE <<>>])

\* DefaultASTTransformer.visit on the statements of a body
RECURSIVE DefaultASTTransformer(_, _, _)
DefaultASTTransformer(body, path, node_to_param) ==
    [i \in 1..Len(body) |->
        LET node == body[i]
            p == path \o <<i>>
        IN IF node.kind = "AnnAssign" THEN visit_AnnAssign(node, p, node_to_param)
           ELSE IF node.kind = "Assign" THEN visit_Assign(node, p, node_to_param)
           ELSE IF node.kind = "FunctionDef"
           THEN [node EXCEPT
                   !.defaults = new_defaults(node, p, node_to_param),
                   !.body = DefaultASTTransformer(node.body, p, node_to_param)]
           ELSE IF node.kind = "ClassDef"
           THEN [node EXCEPT !.body = DefaultASTTransformer(node.body, p, node_to_param)]
           ELSE node]

\* the transformer of get_render_as_ast_node_transformer: visit_AnnAssign,
\* and generic_visit for every other node
RECURSIVE ASTTransformer(_, _, _)
ASTTransformer(body, path, node_to_param) ==
    [i \in 1..Len(body) |->
        LET node == body[i]
            p == path \o <<i>>
        IN IF node.kind = "AnnAssign"
           THEN IF MapHasNode(node_to_param, p)
                THEN LET r == render_as_ast_node(MapByNode(node_to_param, p).param)
                     IN [node EXCEPT !.value = IF r.ok THEN r.val ELSE Raised]
                ELSE node
           ELSE IF HasBody(node)
           THEN [node EXCEPT !.body = ASTTransformer(node.body, p, node_to_param)]
           ELSE node]

RECURSIVE ExprRaised(_)
ExprRaised(e) ==
    \/ e.kind = "Raised"
    \/ \E j \in 1..Len(e.args) : ExprRaised(e.args[j])
    \/ \E j \in 1..Len(e.keywords) : ExprRaised(e.keywords[j].value)

\* building some node of the new tree raised
RECURSIVE BodyRaised(_)
BodyRaised(body) ==
    \E i \in 1..Len(body) :
        \/ ExprRaised(body[i].value)
        \/ \E j \in 1..Len(body[i].defaults) : ExprRaised(body[i].defaults[j])
        \/ BodyRaised(body[i].body)

\* astor.to_source of the new tree
to_source(new_root_module) ==
    IF BodyRaised(new_root_module) THEN Raise("ValueError", <<>>, <<>>)
    ELSE Ok(new_root_module)

\* Python's == on two values
PyEq(a, b) ==
    /\ a.val = b.val
    /\ a.type = b.type \/ {a.type, b.type} \subseteq {"int", "float", "bool"}

\* {param.name: param.value for param in params}[name]
ValueByName(params, name) ==
    params[CHOOSE i \in 1..Len(params) :
        /\ params[i].name = name
        /\ \A j \in (i+1)..Len(params) : params[j].name # name].param.value

VersionError == Raise("ValueError", <<VERSION_PARAM_KEY_NAME>>, <<>>)

\* lines 520-544: the error the version validation raises, or Ok
validate_version_check(pyparams, params) ==
    IF ~Present(<<VERSION_PARAM_KEY_NAME>>, pyparams) THEN VersionError
    ELSE IF \A i \in 1..Len(params) : params[i].name # VERSION_PARAM_KEY_NAME
    THEN VersionError
    ELSE IF ~PyEq(ValueByName(params, VERSION_PARAM_KEY_NAME),
                  pyparams[LastIndexOf(pyparams, <<VERSION_PARAM_KEY_NAME>>)].param.value)
    THEN VersionError
    ELSE Ok(<<>>)

\* compile_source_code_from_configs_list validating the version before it
\* looks the params up in the source
compile_validates_first(source, params, validate_version) ==
    LET Compile(nodes, parsed) ==
            IF ~parsed.ok THEN parsed
            ELSE IF validate_version
                    /\ ~validate_version_check(parsed.val, params).ok
            THEN VersionError
            ELSE IF \E i \in 1..Len(params) : ~Present(full_name(params[i]), parsed.val)
            THEN Raise("KeyError",
                       full_name(params[CHOOSE i \in 1..Len(params) :
                                     ~Present(full_name(params[i]), parsed.val)]),
                       FullNames(parsed.val))
            ELSE to_source(DefaultASTTransformer(source, <<>>,
                    [i \in 1..Len(params) |->
                        [node |-> NamedNode(nodes, parsed.val, full_name(params[i])),
                         param |-> params[i]]]))
        Scan(nodes) == Compile(nodes, FromAstNodes(nodes))
    IN Scan(find_pyparams_assignments_nodes(source, <<>>, "PyParam"))

compile_source_code_from_configs_list(source, params, validate_version) ==
    LET nodes == find_pyparams_assignments_nodes(source, <<>>, "PyParam")
        parsed == FromAstNodes(nodes)
    IN IF ~parsed.ok THEN parsed
       ELSE LET pyparams == parsed.val
                unknown == {i \in 1..Len(params) : ~Present(full_name(params[i]), pyparams)}
            IN IF unknown # {}
               THEN Raise("KeyError",
                          full_name(params[CHOOSE i \in unknown : \A j \in unknown : i <= j]),
                          FullNames(pyparams))
               ELSE LET node_to_config_param ==
                          [i \in 1..Len(params) |->
                              [node |-> NamedNode(nodes, pyparams, full_name(params[i])),
                               param |-> params[i]]]
                        checked == IF validate_version
                                   THEN validate_version_check(pyparams, params)
                                   ELSE Ok(<<>>)
                    IN IF ~checked.ok THEN checked
                       ELSE to_source(DefaultASTTransformer(source, <<>>,
                                                            node_to_config_param))

compile_source_code(source, cfg, validate_version) ==
    LET params == read_params_from_config(cfg)
    IN IF ~params.ok THEN params
       ELSE compile_source_code_from_configs_list(source, params.val, validate_version)

Min(a, b) == IF a <= b THEN a ELSE b

update_source_pyparams(source, new_params) ==
    LET nodes == find_pyparams_assignments_nodes(source, <<>>, "PyParam")
        parsed == FromAstNodes(nodes)
    IN IF ~parsed.ok THEN parsed
       ELSE LET pyparams == parsed.val
                node_to_config_param ==
                    [i \in 1..Min(Len(pyparams), Len(new_params)) |->
                        [node |-> NamedNode(nodes, pyparams, full_name(pyparams[i])),
                         param |-> new_params[i]]]
            IN to_source(ASTTransformer(source, <<>>, node_to_config_param))

-----------------------------------------------------------------------------
(* Extraction, compilation and re-rendering as a state machine: a caller   *)
(* holds a source unit and a document, as tests/test_parser.py does.       *)

Seven == Lit(Value("int", 7))

M1 == Marker(PyParam(Value("int", 1), "none", <<>>, ""))

M2 == Marker(PyParam(Value("tuple", 2), "tuple", <<"loop">>, "d"))

\* Foo(a=value)
Foo(value) == Call("Foo", FALSE, <<>>, <<Keyword("a", value)>>)

\* the statements a source unit is made of: a declaration at each kind of
\* site and each depth, and the statements the scanner passes over
Statements ==
    { AnnAssign("x", M1),
      Assign("x", M2),
      Assign("x", Seven),
      AnnAssign("x", Foo(M1)),
      Assign("x", Foo(M2)),
      Assign("x", Foo(Call("Bar", FALSE, <<>>, <<Keyword("x", M1)>>))),
      Assign("x", Call("Foo", TRUE, <<>>, <<Keyword("a", M1)>>)),
      Assign("x", Call("Foo", FALSE, <<M1>>, <<>>)),
      Assign(VERSION_PARAM_KEY_NAME, M1),
      AnnAssign(VERSION_PARAM_KEY_NAME, M2),
      Assign("loop", M1),
      FunctionDef("f", <<"a", "x">>, <<Seven, M2>>, <<>>),
      FunctionDef("f", <<"a", "x">>, <<M1, M2>>, <<>>),
      FunctionDef("f", <<"a", "x">>, <<Foo(M1)>>, <<>>),
      FunctionDef("f", <<"a", "x">>, <<>>, <<AnnAssign("x", M1)>>),
      ClassDef("C", <<Assign("x", Foo(M1))>>),
      ExprStmt(Foo(M1)) }

\* the document source_to_yaml_config writes for the unit, read from its file
source_document(source) ==
    LET res == get_all_pyparams_from_source_code(source)
    IN IF res.ok THEN read_yaml_file(params_to_yaml_config(res.val)) ELSE OrderedDict

\* the top-level keys of the unit's document that config lacks
DeletedKeys ==
    { n \in 1..Len(source_document(source_code).kids) :
        ~DictHas(config.kids, source_document(source_code).kids[n].key) }

InitCompile ==
    /\ source_code \in SeqsUpTo(Statements, MaxBody)
    /\ config = OrderedDict
    /\ config_params = <<>>
    /\ search_folders = <<>>
    /\ call = NoCall

\* source_to_yaml_config(source_code, path); config = read_yaml_file(path)
SourceToYamlConfig ==
    LET res == get_all_pyparams_from_source_code(source_code)
    IN /\ call' = [op |-> "source_to_yaml_config", res |-> res]
       /\ config' = IF res.ok THEN source_document(source_code) ELSE config
       /\ UNCHANGED <<config_params, source_code, search_folders>>

\* read_params_from_config(config)
ReadParamsFromConfig ==
    LET res == read_params_from_config(config)
    IN /\ call' = [op |-> "read_params_from_config", cfg |-> config, res |-> res]
       /\ config' = ConfigAfterRead(config)
       /\ UNCHANGED <<config_params, source_code, search_folders>>

\* del config[key], as tests/test_parser.py test_version_check does
DelItem ==
    \E n \in 1..Len(config.kids) :
        /\ Cardinality(DeletedKeys) < MaxDeleted
        /\ call' = [op |-> "del", key |-> config.kids[n].key]
        /\ config' = [config EXCEPT !.kids =
                        SubSeq(config.kids, 1, n - 1) \o
                        SubSeq(config.kids, n + 1, Len(config.kids))]
        /\ UNCHANGED <<config_params, source_code, search_folders>>

\* config["version"] = {"value": "x", "dtype": "str"}, as test_version_check
SetVersion ==
    /\ call' = [op |-> "set_version"]
    /\ config' = SetItem(config, <<VERSION_PARAM_KEY_NAME>>,
                         [leaf |-> TRUE, has_scope |-> FALSE,
                          rec |-> PyParam(Value("str", 3), "str", <<>>, ""),
                          kids |-> <<>>])
    /\ UNCHANGED <<config_params, source_code, search_folders>>

CompileSourceCode ==
    \E validate_version \in BOOLEAN :
        /\ call' = [op |-> "compile_source_code", cfg |-> config,
                    validate_version |-> validate_version,
                    res |-> compile_source_code(source_code, config, validate_version)]
        /\ config' = ConfigAfterRead(config)
        /\ UNCHANGED <<config_params, source_code, search_folders>>

\* update_source_pyparams(source, add_scope(scope, pyparams)), as
\* derive_module and tests/test_parser.py test_update_source_pyparams do
UpdateSourcePyparams ==
    \E scope \in Prefixes :
        LET pyparams == get_all_pyparams_from_source_code(source_code)
            new_params == IF pyparams.ok THEN add_scope(scope, pyparams.val) ELSE <<>>
        IN /\ call' = [op |-> "update_source_pyparams", scope |-> scope,
                       new_params |-> new_params,
                       res |-> IF pyparams.ok
                               THEN update_source_pyparams(source_code, new_params)
                               ELSE pyparams]
           /\ UNCHANGED <<config_params, source_code, config, search_folders>>

NextCompile ==
    \/ SourceToYamlConfig
    \/ ReadParamsFromConfig
    \/ DelItem
    \/ SetVersion
    \/ CompileSourceCode
    \/ UpdateSourcePyparams

SpecCompile == InitCompile /\ [][NextCompile]_vars

-----------------------------------------------------------------------------
(* Claims about extraction, compilation and re-rendering *)

\* what the scanner finds in the unit
SourceParams == get_all_pyparams_from_source_code(source_code)

\* the unit's own document, as written or after a read of it
IsOwnDocument(cfg) ==
    /\ SourceParams.ok
    /\ \/ cfg = source_document(source_code)
       \/ cfg = ConfigAfterRead(source_document(source_code))

\* C1 as stated: extracting the parameters of a source unit, writing them
\* to a document and reading the document back yields the extracted list,
\* order included (here for units whose declarations have distinct full
\* names).
C1_Original ==
    ( /\ call.op = "read_params_from_config"
      /\ IsOwnDocument(call.cfg)
      /\ Distinct(SourceParams.val) )
    => call.res = SourceParams

\* C2 as stated: compiling a unit against the document extracted from the
\* same unit leaves no parameter marker call in the output, whatever the
\* kind of site and the nesting depth of the declaration.
C2_Original ==
    ( /\ call.op = "compile_source_code"
      /\ IsOwnDocument(call.cfg)
      /\ Distinct(SourceParams.val)
      /\ call.res.ok )
    => find_pyparams_assignments_nodes(call.res.val, <<>>, "PyParam") = <<>>

\* an expression is the old one except where a declaration was found
RECURSIVE ExprFrame(_, _, _, _)
ExprFrame(old, new, vpath, declared) ==
    \/ vpath \in declared
    \/ /\ new.kind = old.kind /\ new.attr = old.attr /\ new.func = old.func
       /\ new.rec = old.rec /\ new.args = old.args /\ new.path = old.path
       /\ Len(new.keywords) = Len(old.keywords)
       /\ \A j \in 1..Len(old.keywords) :
             /\ new.keywords[j].arg = old.keywords[j].arg
             /\ ExprFrame(old.keywords[j].value, new.keywords[j].value,
                          vpath \o <<j>>, declared)

\* a body is the old one except where a declaration was found: the same
\* statements, the same arguments and number of defaults
RECURSIVE BodyFrame(_, _, _, _)
BodyFrame(old, new, path, declared) ==
    /\ Len(new) = Len(old)
    /\ \A i \in 1..Len(old) :
          /\ new[i].kind = old[i].kind
          /\ new[i].target = old[i].target
          /\ new[i].args = old[i].args
          /\ ExprFrame(old[i].value, new[i].value, path \o <<i, 0>>, declared)
          /\ Len(new[i].defaults) = Len(old[i].defaults)
          /\ \A j \in 1..Len(old[i].defaults) :
                ExprFrame(old[i].defaults[j], new[i].defaults[j],
                          path \o <<i, -j>>, declared)
          /\ BodyFrame(old[i].body, new[i].body, path \o <<i>>, declared)

\* where the scanner finds a declaration in the unit
DeclaredPaths ==
    LET nodes == find_pyparams_assignments_nodes(source_code, <<>>, "PyParam")
    IN { nodes[n].vpath : n \in 1..Len(nodes) }

\* C3 as stated: a rewrite changes the tree only at the declarations it
\* substitutes; every other node is unchanged, and a function keeps the
\* number of its defaults.
C3_Original ==
    ( /\ call.op \in {"compile_source_code", "update_source_pyparams"}
      /\ call.res.ok )
    => BodyFrame(source_code, call.res.val, <<>>, DeclaredPaths)

\* C8 as stated: re-rendering a unit with add_scope(scope, extracted) and
\* extracting again yields add_scope(scope, extracted), whatever the kind
\* of site of the declarations (here for units whose declarations have
\* distinct full names).
C8_Original ==
    ( /\ call.op = "update_source_pyparams"
      /\ call.res.ok
      /\ Distinct(SourceParams.val) )
    => get_all_pyparams_from_source_code(call.res.val) = Ok(call.new_params)

\* the value of the parameter with root-level full name "version"
VersionOf(params) ==
    params[LastIndexOf(params, <<VERSION_PARAM_KEY_NAME>>)].param.value

\* C9 as stated: with validation on, the compile fails when the source or
\* the document has no "version" parameter or when their values differ,
\* and succeeds when both have it with equal values (here for documents
\* that read without error and whose keys the source all has).
C9_Original ==
    ( /\ call.op = "compile_source_code"
      /\ call.validate_version
      /\ SourceParams.ok
      /\ read_params_from_config(call.cfg).ok
      /\ \A i \in 1..Len(read_params_from_config(call.cfg).val) :
            Present(full_name(read_params_from_config(call.cfg).val[i]),
                    SourceParams.val) )
    => LET source == SourceParams.val
           document == read_params_from_config(call.cfg).val
           both == /\ Present(<<VERSION_PARAM_KEY_NAME>>, source)
                   /\ Present(<<VERSION_PARAM_KEY_NAME>>, document)
       IN call.res.ok <=> (both /\ PyEq(VersionOf(source), VersionOf(document)))

-----------------------------------------------------------------------------
(* Source text.  A text is a sequence of symbols: a symbol is one          *)
(* character (a space, "\n", a bracket, a quote, ...) or a run of letters  *)
(* that no pattern of the code looks into.  "x in text" for a marker x is  *)
(* then membership of the symbol x.                                        *)

NL == "\n"

\* marker in text
Contains(text, marker) == \E i \in 1..Len(text) : text[i] = marker

\* the pieces of the text between the symbols of seps, empty pieces included
RECURSIVE SplitOn(_, _)
SplitOn(text, seps) ==
    LET Merge(left, right) ==
            SubSeq(left, 1, Len(left) - 1)
                \o <<left[Len(left)] \o right[1]>> \o Tail(right)
    IN IF \A i \in 1..Len(text) : text[i] \notin seps THEN <<text>>
       ELSE IF Len(text) = 1 THEN << <<>>, <<>> >>
       ELSE Merge(SplitOn(SubSeq(text, 1, Len(text) \div 2), seps),
                  SplitOn(SubSeq(text, Len(text) \div 2 + 1, Len(text)), seps))

\* text.split("\n")
SplitLines(text) == SplitOn(text, {NL})

\* "\n".join(lines)
RECURSIVE JoinLines(_)
JoinLines(lines) ==
    IF lines = <<>> THEN <<>>
    ELSE IF Len(lines) = 1 THEN lines[1]
    ELSE JoinLines(SubSeq(lines, 1, Len(lines) \div 2)) \o <<NL>>
            \o JoinLines(SubSeq(lines, Len(lines) \div 2 + 1, Len(lines)))

\* re.split("[()\\s]+", text): a run of separators splits once
ReSplit(text) ==
    LET pieces == SplitOn(text, {"(", ")", " ", NL})
    IN SelectSeq([i \in 1..Len(pieces) |-> [i |-> i, piece |-> pieces[i]]],
                 LAMBDA e : e.i = 1 \/ e.i = Len(pieces) \/ e.piece # <<>>)

\* list.count(word) on the pieces
CountWord(pieces, word) ==
    Cardinality({i \in 1..Len(pieces) : pieces[i].piece = <<word>>})

Blank == {" ", "\""}

\* re.match(r'.*DeriveModule.*\([ "]+(.*)[ "]+\).*', line): the positions
\* <<d, p, s, q>> of the marker, of the bracket after it, of the end of the
\* first run of blanks and quotes, and of the closing bracket
DeriveMatches(line) ==
    { m \in (1..Len(line)) \X (1..Len(line)) \X (1..Len(line)) \X (1..Len(line)) :
        /\ line[m[1]] = "DeriveModule"
        /\ m[1] < m[2] /\ line[m[2]] = "("
        /\ m[2] < m[3] /\ \A i \in (m[2]+1)..m[3] : line[i] \in Blank
        /\ m[3] < m[4] - 1 /\ line[m[4] - 1] \in Blank /\ line[m[4]] = ")" }

\* the match the greedy quantifiers settle on: each of d, p, s, q as far
\* right as the ones before it allow
GreedyMatch(line) ==
    CHOOSE m \in DeriveMatches(line) :
        \A n \in DeriveMatches(line) :
            \/ n[1] < m[1]
            \/ n[1] = m[1] /\ n[2] < m[2]
            \/ n[1] = m[1] /\ n[2] = m[2] /\ n[3] < m[3]
            \/ n[1] = m[1] /\ n[2] = m[2] /\ n[3] = m[3] /\ n[4] <= m[4]

\* matcher.group(1)
DeriveGroup(line) ==
    SubSeq(line, GreedyMatch(line)[3] + 1, GreedyMatch(line)[4] - 2)

\* lines 83-96 of derive_module: the name of the module to derive, or the
\* error
derive_module_name(source) ==
    IF CountWord(ReSplit(source), "DeriveModule") # 1
    THEN Raise("ValueError", <<"DeriveModule can be used only once in the code">>, <<>>)
    ELSE LET lines == SplitLines(source)
             matching == {i \in 1..Len(lines) : DeriveMatches(lines[i]) # {}}
         IN IF matching = {}
            THEN Raise("ValueError", <<"Cannot parse DeriveModule module name">>, <<>>)
            ELSE Ok(DeriveGroup(lines[CHOOSE i \in matching : \A j \in matching : j <= i]))

-----------------------------------------------------------------------------
(* Module includes: PyParamModule and the marker calls of pyparam_fn *)

\* PyParamModule(name, path, scope)
PyParamModule(name, path, scope) == [name |-> name, path |-> path, scope |-> scope]

\* the call IncludeModule(path, scope), ReplaceModule(path, scope),
\* IncludeSource(path) or DeriveModule(path)
Directive(func, path, scope) ==
    [kind |-> "Call", attr |-> FALSE, func |-> func,
     rec |-> [value |-> Value("none", 0), dtype |-> "none", scope |-> scope, desc |-> ""],
     args |-> <<>>, keywords |-> <<>>, path |-> path]

\* PyParamModule.full_name: os.path.join(path, name)
module_full_name(m) == PathJoin(m.path, <<m.name>>)

\* PyParamModule.module_path: "/".join(path.split(".")) + ".py"
module_path(m) == StrJoin(SplitOn(m.path, {"."})) \o <<".py">>

\* PyParamModule.from_ast_node: node.target is an attribute of an annotated
\* assignment only
module_from_ast_node(site) ==
    IF site.kind # "AnnAssign" THEN Raise("AttributeError", <<>>, <<>>)
    ELSE Ok(PyParamModule(site.target, site.value.path, site.value.rec.scope))

RECURSIVE ModulesFromAstNodes(_)
ModulesFromAstNodes(nodes) ==
    IF nodes = <<>> THEN Ok(<<>>)
    ELSE LET r == module_from_ast_node(Head(nodes))
         IN IF ~r.ok THEN r
            ELSE LET rest == ModulesFromAstNodes(Tail(nodes))
                 IN IF rest.ok THEN Ok(<<r.val>> \o rest.val) ELSE rest

\* get_all_pyparams_from_source_code(source, assigment_op_name=op_name,
\* ast_parser=PyParamModule) on the parsed source
get_all_modules_from_source_code(tree, op_name) ==
    ModulesFromAstNodes(find_pyparams_assignments_nodes(tree, <<>>, op_name))

-----------------------------------------------------------------------------
(* The decorator-comment pre-passes of modules_parser.  A line is a       *)
(* sequence of symbols; the words "from", "import", "as" and the markers   *)
(* are symbols of their own wherever they occur in a line.                 *)

IMPORT_MODULE_DECORATOR == "@import_pyparams_as_module"
IMPORT_SOURCE_DECORATOR == "@import_pyparams_as_source"

\* str.strip()
RECURSIVE Strip(_)
Strip(s) ==
    IF s # <<>> /\ Head(s) = " " THEN Strip(Tail(s))
    ELSE IF s # <<>> /\ Last(s) = " " THEN Strip(SubSeq(s, 1, Len(s) - 1))
    ELSE s

\* the group ([ ]*) at the start of a line: the number of leading spaces
RECURSIVE Indent(_)
Indent(line) ==
    IF line # <<>> /\ Head(line) = " " THEN 1 + Indent(Tail(line)) ELSE 0

Spaces(n) == [i \in 1..n |-> " "]

\* the line starts, after its indentation, with the word and one space
StartsWith(line, word) ==
    /\ Len(line) >= Indent(line) + 2
    /\ line[Indent(line) + 1] = word
    /\ line[Indent(line) + 2] = " "

\* the greatest position of a set, 0 if there is none: where a greedy (.*)
\* before it stops
LastOf(at) == IF at = {} THEN 0 ELSE CHOOSE i \in at : \A j \in at : j <= i

\* r"([ ]*)from (.*).*import.*[*].*": the position of the import word that
\* ends group 2, 0 if the line does not match
SourceImportAt(line) ==
    IF ~StartsWith(line, "from") THEN 0
    ELSE LastOf({i \in (Indent(line) + 3)..Len(line) :
                     line[i] = "import" /\ \E j \in (i+1)..Len(line) : line[j] = "*"})

\* the rewritten line f"{col_offset}IncludeSource('{include_source_path}')"
IncludeSourceLine(line) ==
    Spaces(Indent(line)) \o <<"IncludeSource", "(", "'">>
        \o Strip(SubSeq(line, Indent(line) + 3, SourceImportAt(line) - 1))
        \o <<"'", ")">>

\* the loop of parse_include_source_decorators over the lines left
RECURSIVE SourcePass(_, _)
SourcePass(lines, has_import_source) ==
    IF lines = <<>> THEN Ok(<<>>)
    ELSE IF has_import_source /\ SourceImportAt(Head(lines)) = 0
    THEN Raise("ValueError", <<"Cannot parse include source line: ">> \o Head(lines), <<>>)
    ELSE LET line == IF has_import_source THEN IncludeSourceLine(Head(lines))
                     ELSE Head(lines)
         IN IF Contains(line, IMPORT_SOURCE_DECORATOR)
            THEN SourcePass(Tail(lines), TRUE)
            ELSE LET rest == SourcePass(Tail(lines), FALSE)
                 IN IF rest.ok THEN Ok(<<line>> \o rest.val) ELSE rest

parse_include_source_decorators(source) ==
    IF ~Contains(source, IMPORT_SOURCE_DECORATOR) THEN Ok(source)
    ELSE LET r == SourcePass(SplitLines(source), FALSE)
         IN IF r.ok THEN Ok(JoinLines(r.val)) ELSE r

\* r"([ ]*)import (.*)[ ]*as[ ]*(.*)[ ]*": the position of the "as" that
\* ends group 2, 0 if the line does not match
ModuleAsAt(line) ==
    IF ~StartsWith(line, "import") THEN 0
    ELSE LastOf({i \in (Indent(line) + 3)..Len(line) : line[i] = "as"})

\* r".*@import_pyparams_as_module.*\((.*)\).*": the positions <<d, p, q>>
\* of the marker and of the brackets around group 1
DecoMatches(line) ==
    { m \in (1..Len(line)) \X (1..Len(line)) \X (1..Len(line)) :
        /\ line[m[1]] = IMPORT_MODULE_DECORATOR
        /\ m[1] < m[2] /\ line[m[2]] = "("
        /\ m[2] < m[3] /\ line[m[3]] = ")" }

\* deco_matcher.group(1).strip(), each greedy quantifier as far right as
\* the ones before it allow
DecoScopeArg(line) ==
    LET m == CHOOSE m \in DecoMatches(line) :
                 \A n \in DecoMatches(line) :
                     \/ n[1] < m[1]
                     \/ n[1] = m[1] /\ n[2] < m[2]
                     \/ n[1] = m[1] /\ n[2] = m[2] /\ n[3] <= m[3]
    IN Strip(SubSeq(line, m[2] + 1, m[3] - 1))

\* the rewritten line
\* f"{col_offset}{module_name}: Module = IncludeModule('{path}', scope={arg})"
IncludeModuleLine(line, decorator_def) ==
    Spaces(Indent(line))
        \o Strip(SubSeq(line, ModuleAsAt(line) + 1, Len(line)))
        \o <<":", " ", "Module", " ", "=", " ", "IncludeModule", "(", "'">>
        \o Strip(SubSeq(line, Indent(line) + 3, ModuleAsAt(line) - 1))
        \o <<"'", ",", " ", "scope", "=">>
        \o (IF DecoScopeArg(decorator_def) = <<>> THEN <<"\"", "\"">>
            ELSE DecoScopeArg(decorator_def))
        \o <<")">>

\* the loop of parse_include_modules_decorators over the lines left;
\* decorator_def is <<>> for None
RECURSIVE ModulesPass(_, _)
ModulesPass(lines, decorator_def) ==
    IF lines = <<>> THEN Ok(<<>>)
    ELSE IF /\ decorator_def # <<>>
            /\ (ModuleAsAt(Head(lines)) = 0 \/ DecoMatches(decorator_def) = {})
    THEN Raise("ValueError",
               <<"Cannot parse include module line: ">> \o Head(lines)
                   \o <<" with decorator def: ">> \o decorator_def, <<>>)
    ELSE LET line == IF decorator_def # <<>>
                     THEN IncludeModuleLine(Head(lines), decorator_def)
                     ELSE Head(lines)
         IN IF Contains(line, IMPORT_MODULE_DECORATOR)
            THEN ModulesPass(Tail(lines), line)
            ELSE LET rest == ModulesPass(Tail(lines), <<>>)
                 IN IF rest.ok THEN Ok(<<line>> \o rest.val) ELSE rest

parse_include_modules_decorators(source) ==
    IF ~Contains(source, IMPORT_MODULE_DECORATOR) THEN Ok(source)
    ELSE LET r == ModulesPass(SplitLines(source), <<>>)
         IN IF r.ok THEN Ok(JoinLines(r.val)) ELSE r

-----------------------------------------------------------------------------
(* The surface syntax of the lines the pre-passes read and write *)

\* "# @import_pyparams_as_module(arg)", "# @import_pyparams_as_source()"
DecoratorText(marker, arg) == <<"#", " ", marker, "(">> \o arg \o <<")">>

\* "import P as N"
ImportAsText(P, N) == <<"import", " ">> \o P \o <<" ", "as", " ">> \o N

\* "from P import what"
FromImportText(P, what) == <<"from", " ">> \o P \o <<" ", "import", " ">> \o what

\* "IncludeSource('P')"
IncludeSourceText(P) == <<"IncludeSource", "(", "'">> \o P \o <<"'", ")">>

\* "N: Module = IncludeModule('P', scope=arg)"
IncludeModuleText(N, P, arg) ==
    N \o <<":", " ", "Module", " ", "=", " ", "IncludeModule", "(", "'">> \o P
      \o <<"'", ",", " ", "scope", "=">> \o arg \o <<")">>

\* dotted paths of units and local names of includes; "base" holds the
\* letters "as"
UnitPaths == {<<"unit">>, <<"models", ".", "b", "as", "e">>}

LocalNames == {<<"net">>, <<"b", "as", "e">>}

\* the text between the brackets of a module decorator comment
ScopeArgs == {<<>>, <<"\"", "s", "\"">>}

-----------------------------------------------------------------------------
(* State machine of the pre-passes: a text of a few lines, rewritten by    *)
(* parse_include_source_decorators and parse_include_modules_decorators    *)
(* as include_source_from_nodes applies them                               *)

\* lines of the text the pre-passes start from
MaxLines == 3

DecoLines ==
    {DecoratorText(IMPORT_MODULE_DECORATOR, arg) : arg \in ScopeArgs}
    \cup {DecoratorText(IMPORT_SOURCE_DECORATOR, <<>>)}
    \cup {ImportAsText(<<"unit">>, N) : N \in LocalNames}
    \cup {Spaces(2) \o ImportAsText(<<"unit">>, <<"net">>)}
    \cup {<<"import", " ">> \o P : P \in UnitPaths}
    \cup {FromImportText(<<"unit">>, <<"*">>),
          Spaces(2) \o FromImportText(<<"unit">>, <<"*">>),
          FromImportText(<<"unit">>, <<"f", " ", "#", "*">>),
          <<"x", " ", "=", " ", "1">>}

InitDecorators ==
    /\ \E lines \in SeqsUpTo(DecoLines, MaxLines) :
          lines # <<>> /\ source_code = JoinLines(lines)
    /\ config_params = <<>>
    /\ config = OrderedDict
    /\ search_folders = <<>>
    /\ call = NoCall

\* source_code = parse_include_source_decorators(source_code)
ParseIncludeSourceDecorators ==
    LET res == parse_include_source_decorators(source_code)
    IN /\ call' = [op |-> "parse_include_source_decorators",
                   source |-> source_code, res |-> res]
       /\ source_code' = IF res.ok THEN res.val ELSE source_code
       /\ UNCHANGED <<config_params, config, search_folders>>

\* source_code = parse_include_modules_decorators(source_code)
ParseIncludeModulesDecorators ==
    LET res == parse_include_modules_decorators(source_code)
    IN /\ call' = [op |-> "parse_include_modules_decorators",
                   source |-> source_code, res |-> res]
       /\ source_code' = IF res.ok THEN res.val ELSE source_code
       /\ UNCHANGED <<config_params, config, search_folders>>

NextDecorators == ParseIncludeSourceDecorators \/ ParseIncludeModulesDecorators

SpecDecorators == InitDecorators /\ [][NextDecorators]_vars

\* the expected single-line import forms
IsImportAs(line) ==
    \E k \in 0..2, P \in UnitPaths, N \in LocalNames :
        line = Spaces(k) \o ImportAsText(P, N)

IsFromImportStar(line) ==
    \E k \in 0..2, P \in UnitPaths : line = Spaces(k) \o FromImportText(P, <<"*">>)

\* the marker a pre-pass recognizes and the import form it expects
MarkerOf(op) ==
    IF op = "parse_include_source_decorators" THEN IMPORT_SOURCE_DECORATOR
    ELSE IMPORT_MODULE_DECORATOR

ExpectedForm(op, line) ==
    IF op = "parse_include_source_decorators" THEN IsFromImportStar(line)
    ELSE IsImportAs(line)

\* piece occurs in text as a run of consecutive symbols
IsInfix(piece, text) ==
    \E i \in 0..(Len(text) - Len(piece)) : SubSeq(text, i + 1, i + Len(piece)) = piece

\* the lines that follow a decorator comment without having the form
Offending(op, lines) ==
    {i \in 2..Len(lines) :
        Contains(lines[i-1], MarkerOf(op)) /\ ~ExpectedForm(op, lines[i])}

\* C17: each pre-pass fails, with an error that holds the offending line,
\* whenever the line after a decorator comment is not of the expected
\* single-line import form
C17_Original ==
    call.op \in {"parse_include_source_decorators", "parse_include_modules_decorators"}
    => LET lines == SplitLines(call.source)
       IN Offending(call.op, lines) # {}
          => /\ ~call.res.ok
             /\ \E i \in Offending(call.op, lines) : IsInfix(lines[i], call.res.err.key)

\* the line the claim has a pair rewritten into
RewrittenLine(op, comment, line) ==
    IF op = "parse_include_source_decorators"
    THEN LET f == CHOOSE f \in (0..2) \X UnitPaths :
                      line = Spaces(f[1]) \o FromImportText(f[2], <<"*">>)
         IN Spaces(f[1]) \o IncludeSourceText(f[2])
    ELSE LET f == CHOOSE f \in (0..2) \X UnitPaths \X LocalNames :
                      line = Spaces(f[1]) \o ImportAsText(f[2], f[3])
             arg == CHOOSE arg \in ScopeArgs :
                      comment = DecoratorText(IMPORT_MODULE_DECORATOR, arg)
         IN Spaces(f[1]) \o IncludeModuleText(f[3], f[2],
                IF arg = <<>> THEN <<"\"", "\"">> ELSE arg)

\* every pair of a comment and its import line rewritten, every other line
\* kept
RECURSIVE Rewritten(_, _)
Rewritten(op, lines) ==
    IF lines = <<>> THEN <<>>
    ELSE IF Contains(lines[1], MarkerOf(op))
    THEN <<RewrittenLine(op, lines[1], lines[2])>>
             \o Rewritten(op, SubSeq(lines, 3, Len(lines)))
    ELSE <<lines[1]>> \o Rewritten(op, Tail(lines))

\* every decorator comment of the text is followed by a line of the form
WellFormed(op, lines) ==
    \A i \in 1..Len(lines) :
        Contains(lines[i], MarkerOf(op))
        => i < Len(lines) /\ ExpectedForm(op, lines[i+1])

\* C18: a decorator comment and the import line after it are rewritten
\* into the single line N: Module = IncludeModule('P', scope=S), or
\* IncludeSource('P'), at the indentation of the import line, and every
\* other line is kept unchanged and in order
C18_Original ==
    call.op \in {"parse_include_source_decorators", "parse_include_modules_decorators"}
    => LET lines == SplitLines(call.source)
       IN WellFormed(call.op, lines)
          => /\ call.res.ok
             /\ call.res.val = JoinLines(Rewritten(call.op, lines))

-----------------------------------------------------------------------------
(* Source text and its tree: ast.parse and astor.to_source on the          *)
(* statements the module layer reads and writes.  A line that is none of   *)
(* the forms below is kept as an opaque statement holding its text; the    *)
(* values of parameters are one-digit integers.                            *)

Quotes == {"'", "\""}

\* the quoted strings of a line, in order
QuotedStrings(s) ==
    LET at == SelectSeq([i \in 1..Len(s) |-> i], LAMBDA i : s[i] \in Quotes)
    IN [n \in 1..(Len(at) \div 2) |-> SubSeq(s, at[2*n - 1] + 1, at[2*n] - 1)]

\* the integer a numeral stands for
Num(symbol) == CHOOSE v \in 0..9 : ToString(v) = symbol

\* "func(path='P', scope='S')", as PyParamModule.render_as_ast_node writes it
ModuleCallText(func, P, S) ==
    <<func, "(", "path", "=", "'">> \o P \o <<"'", ",", " ", "scope", "=", "'">>
        \o S \o <<"'", ")">>

\* "DeriveModule("P")"
DeriveText(P) == <<"DeriveModule", "(", "\"">> \o P \o <<"\"", ")">>

\* "PyParam(v)", or the text str(PyParam) of render_as_ast_node
PyParamText(rec) ==
    IF rec.dtype = "none" THEN <<"PyParam", "(", ToString(rec.value.val), ")">>
    ELSE <<"PyParam", "(", "value", "=", ToString(rec.value.val), ",", " ",
           "dtype", "=", "'", rec.dtype, "'", ",", " ", "scope", "=", "'">>
             \o rec.scope \o <<"'", ",", " ", "desc", "=", "'", "'", ")">>

\* a statement the scanners do not look into, with its text
Other(text) ==
    [kind |-> "Other", target |-> "", value |-> RawText(text),
     args |-> <<>>, defaults |-> <<>>, body |-> <<>>, col_offset |-> 0]

\* the expression a call text stands for: a marker call with its fields,
\* positional or by keyword
ParseCall(s) ==
    LET q == QuotedStrings(s)
    IN IF s[1] \in {"IncludeModule", "ReplaceModule", "IncludeSource", "DeriveModule"}
       THEN Directive(s[1], IF Len(q) >= 1 THEN q[1] ELSE <<>>,
                      IF Len(q) >= 2 THEN q[2] ELSE <<>>)
       ELSE IF s[3] = "value"
       THEN Marker(PyParam(Value("int", Num(s[5])), "int", q[2], ""))
       ELSE IF Len(q) >= 1
       THEN Marker(PyParam(Value("int", Num(s[3])), "int", q[1], ""))
       ELSE Marker(PyParam(Value("int", Num(s[3])), "none", <<>>, ""))

MarkerCalls == {"PyParam", "IncludeModule", "ReplaceModule", "IncludeSource",
                "DeriveModule"}

\* the statement of one line without its indentation; the annotation of an
\* annotated assignment is kept in args
ParseLine(s) ==
    IF Len(s) >= 3 /\ s[1] \in MarkerCalls /\ s[2] = "("
    THEN ExprStmt(ParseCall(s))
    ELSE IF Len(s) >= 9 /\ s[2] = ":" /\ s[8] \in MarkerCalls /\ s[9] = "("
    THEN [AnnAssign(s[1], ParseCall(SubSeq(s, 8, Len(s)))) EXCEPT !.args = <<s[4]>>]
    ELSE IF Len(s) >= 6 /\ s[3] = "=" /\ s[5] \in MarkerCalls /\ s[6] = "("
    THEN Assign(s[1], ParseCall(SubSeq(s, 5, Len(s))))
    ELSE IF s[1] = "def" /\ Len(s) >= 6
    THEN IF s[5] = ")" THEN FunctionDef(s[3], <<>>, <<>>, <<>>)
         ELSE IF s[6] = "=" THEN FunctionDef(s[3], <<s[5]>>,
                                             <<Lit(Value("int", Num(s[7])))>>, <<>>)
         ELSE FunctionDef(s[3], <<s[5]>>, <<>>, <<>>)
    ELSE IF s[1] = "class" /\ Len(s) >= 4 THEN ClassDef(s[3], <<>>)
    ELSE Other(s)

IsBlank(line) == \A i \in 1..Len(line) : line[i] = " "

\* the last line of the block the first line opens: the lines after it
\* that are blank or indented deeper
BodyEnd(lines) ==
    CHOOSE e \in 1..Len(lines) :
        /\ \A m \in 2..e : IsBlank(lines[m]) \/ Indent(lines[m]) > Indent(lines[1])
        /\ e < Len(lines) =>
              ~IsBlank(lines[e+1]) /\ Indent(lines[e+1]) <= Indent(lines[1])

\* the statement that starts on line i, without its body
StmtAt(lines, i) ==
    [ParseLine(SubSeq(lines[i], Indent(lines[i]) + 1, Len(lines[i])))
        EXCEPT !.col_offset = Indent(lines[i])]

\* the last line of the statement that starts on line i
StmtEnd(lines, i) ==
    IF HasBody(StmtAt(lines, i))
    THEN i + BodyEnd(SubSeq(lines, i, Len(lines))) - 1
    ELSE i

\* the first line from line i on that is not blank, Len(lines) + 1 if
\* there is none
FirstStmt(lines, i) ==
    IF \A j \in i..Len(lines) : IsBlank(lines[j]) THEN Len(lines) + 1
    ELSE CHOOSE j \in i..Len(lines) :
            ~IsBlank(lines[j]) /\ \A m \in i..(j-1) : IsBlank(lines[m])

\* the lines reached from those of from by following next: each round
\* doubles the number of steps followed
RECURSIVE Reached(_, _)
Reached(next, from) ==
    IF {next[i] : i \in from} \subseteq from THEN from
    ELSE Reached([i \in DOMAIN next |-> next[next[i]]],
                 from \cup {next[i] : i \in from})

\* the lines the statements of a block start on, in their order
StmtStarts(lines) ==
    LET Ordered(at) ==
            [k \in 1..Cardinality(at) |->
                CHOOSE i \in at : Cardinality({j \in at : j < i}) = k - 1]
    IN Ordered(Reached([i \in 1..(Len(lines) + 1) |->
                           IF i > Len(lines) \/ IsBlank(lines[i]) THEN Len(lines) + 1
                           ELSE FirstStmt(lines, StmtEnd(lines, i) + 1)],
                       {FirstStmt(lines, 1)})
               \ {Len(lines) + 1})

RECURSIVE ParseLines(_)
ParseLines(lines) ==
    LET Stmt(i) ==
            IF HasBody(StmtAt(lines, i))
            THEN [StmtAt(lines, i) EXCEPT
                    !.body = ParseLines(SubSeq(lines, i + 1, StmtEnd(lines, i)))]
            ELSE StmtAt(lines, i)
        Stmts(starts) == [k \in 1..Len(starts) |-> Stmt(starts[k])]
    IN Stmts(StmtStarts(lines))

\* ast.parse(source).body
ast_parse(source) == ParseLines(SplitLines(source))

\* the text of an expression
ExprText(e) ==
    IF e.kind = "Lit" THEN <<ToString(e.rec.value.val)>>
    ELSE IF e.kind = "Raw" THEN e.path
    ELSE IF e.func = "PyParam" THEN PyParamText(e.rec)
    ELSE IF e.func = "IncludeSource" THEN IncludeSourceText(e.path)
    ELSE IF e.func = "DeriveModule" THEN DeriveText(e.path)
    ELSE ModuleCallText(e.func, e.path, e.rec.scope)

\* the first line of a statement
StmtText(stmt) ==
    IF stmt.kind = "AnnAssign"
    THEN <<stmt.target, ":", " ">> \o stmt.args \o <<" ", "=", " ">> \o ExprText(stmt.value)
    ELSE IF stmt.kind = "Assign"
    THEN <<stmt.target, " ", "=", " ">> \o ExprText(stmt.value)
    ELSE IF stmt.kind = "FunctionDef"
    THEN <<"def", " ", stmt.target, "(">>
             \o (IF stmt.args = <<>> THEN <<>>
                 ELSE IF stmt.defaults = <<>> THEN stmt.args
                 ELSE stmt.args \o <<"=">> \o ExprText(stmt.defaults[1]))
             \o <<")", ":">>
    ELSE IF stmt.kind = "ClassDef" THEN <<"class", " ", stmt.target, ":">>
    ELSE ExprText(stmt.value)

COMPILED_SOURCE_INDENTATION == <<" ", " ">>

RECURSIVE SourceLines(_, _)
SourceLines(body, indent) ==
    Concat([i \in 1..Len(body) |->
        <<indent \o StmtText(body[i])>>
            \o SourceLines(body[i].body, indent \o COMPILED_SOURCE_INDENTATION)])

\* astor.to_source(tree, indent_with=COMPILED_SOURCE_INDENTATION): one
\* statement per line, a newline after the last
astor_to_source(tree) == JoinLines(SourceLines(tree, <<>>)) \o <<NL>>

-----------------------------------------------------------------------------
(* Recursive source inclusion: include_source_from_nodes *)

\* a file of a search folder: its path below the folder and its text
File(path, text) == [path |-> path, text |-> text]

\* for each search folder, the texts of its files at the unit's module_path
Matching(folders, m) ==
    [i \in 1..Len(folders) |->
        LET at == SelectSeq(folders[i], LAMBDA f : f.path = module_path(m))
        IN [n \in 1..Len(at) |-> at[n].text]]

RECURSIVE find_ast_expr_nodes(_, _)
find_ast_expr_nodes(body, op_name) ==
    Concat([i \in 1..Len(body) |->
        LET element == body[i]
        IN (IF element.kind = "FunctionDef"
            THEN find_ast_expr_nodes(element.body, op_name)
            ELSE <<>>)
           \o
           (IF /\ element.kind = "Expr"
               /\ element.value.kind = "Call"
               /\ ~element.value.attr
               /\ element.value.func = op_name
            THEN <<element>>
            ELSE <<>>)])

BANNER_WIDTH == 80

\* the symbol of the backquote character
BQ == "backquote"

\* the three lines of header_lines, or of the lines that end the include,
\* split at their newlines
BannerLines(col_offset, comment) ==
    LET s_col_offset == Spaces(col_offset)
        dashes == s_col_offset \o [i \in 1..(BANNER_WIDTH - col_offset) |-> "-"]
    IN <<s_col_offset \o <<"\"\"\"">>, dashes,
         s_col_offset \o s_col_offset \o comment,
         dashes, s_col_offset \o <<"\"\"\"">> >>

render_include_source_code(col_offset, include_path, include_code) ==
    BannerLines(col_offset,
                <<"PyParams: auto include source of ", BQ>> \o include_path \o <<BQ>>)
    \o [i \in 1..Len(SplitLines(include_code)) |->
            Spaces(col_offset) \o SplitLines(include_code)[i]]
    \o BannerLines(col_offset, <<"INCLUDE END OF ", BQ>> \o include_path \o <<BQ>>)

\* lines 178-212 of include_source_from_nodes, the body without the call of
\* itself: the text it returns or hands to the next call (spliced), with the
\* working source after the two pre-passes
IncludeSourceStep(source, folders) ==
    LET Returned(res) == [spliced |-> FALSE, res |-> res, pre |-> <<>>]
        Splice(node, include_code, source_code_lines) ==
            LET include_path == node.value.path
                hits == {i \in 1..Len(source_code_lines) :
                            /\ Contains(source_code_lines[i], "IncludeSource")
                            /\ IsInfix(include_path, source_code_lines[i])}
                lineno == IF hits = {} THEN Len(source_code_lines)
                          ELSE CHOOSE i \in hits : \A j \in hits : i <= j
            IN IF ~include_code.ok THEN Returned(include_code)
               ELSE [spliced |-> TRUE,
                     res |-> Ok(JoinLines(
                                SubSeq(source_code_lines, 1, lineno - 1)
                                \o render_include_source_code(node.col_offset,
                                                              include_path,
                                                              include_code.val)
                                \o SubSeq(source_code_lines, lineno + 1,
                                          Len(source_code_lines)))),
                     pre |-> JoinLines(source_code_lines)]
        Include(s2, expr_nodes) ==
            IF expr_nodes = <<>> THEN Returned(s2)
            ELSE Splice(expr_nodes[1],
                        find_module_source(
                            Matching(folders,
                                     PyParamModule("derived",
                                                   expr_nodes[1].value.path, <<>>))),
                        SplitLines(s2.val))
        AfterModules(s2) ==
            IF ~s2.ok \/ ~Contains(s2.val, "IncludeSource") THEN Returned(s2)
            ELSE Include(s2, find_ast_expr_nodes(ast_parse(s2.val), "IncludeSource"))
        AfterSource(s1) ==
            IF ~s1.ok THEN Returned(s1)
            ELSE AfterModules(parse_include_modules_decorators(s1.val))
    IN AfterSource(parse_include_source_decorators(source))

\* the depth of calls at which the interpreter raises RecursionError
MaxDepth == 8

\* the call of include_source_from_nodes at the given depth of the stack:
\* each splice is followed by a call of itself on the spliced text
RECURSIVE IncludeFrames(_, _, _)
IncludeFrames(source, folders, depth) ==
    LET Recurse(step) ==
            IF step.spliced THEN IncludeFrames(step.res.val, folders, depth + 1)
            ELSE step.res
    IN IF depth > MaxDepth THEN Raise("RecursionError", <<>>, <<>>)
       ELSE Recurse(IncludeSourceStep(source, folders))

include_source_from_nodes(source, folders) == IncludeFrames(source, folders, 1)

-----------------------------------------------------------------------------
(* State machine of source inclusion: a working source made of a few      *)
(* blocks, and search folders that hold the units p and q (q includes p)  *)

PlainLine(name, v) == <<name, " ", "=", " ", ToString(v)>>

UnitP == JoinLines(<<PlainLine("w", 1)>>)

UnitQ == JoinLines(<<IncludeSourceText(<<"p">>), PlainLine("v", 2)>>)

SourceFolder == <<File(<<"p", ".py">>, UnitP), File(<<"q", ".py">>, UnitQ)>>

IncludeBlocks ==
    {<<IncludeSourceText(<<"p">>)>>,
     <<PlainLine("x", 1)>>,
     <<<<"def", " ", "f", "(", ")", ":">>, Spaces(2) \o IncludeSourceText(<<"q">>)>>,
     <<<<"class", " ", "C", ":">>, Spaces(2) \o IncludeSourceText(<<"p">>)>>,
     <<<<"class", " ", "C", ":">>, Spaces(2) \o <<"def", " ", "m", "(", ")", ":">>,
       Spaces(4) \o IncludeSourceText(<<"p">>)>>,
     <<DecoratorText(IMPORT_SOURCE_DECORATOR, <<>>), FromImportText(<<"p">>, <<"*">>)>>}

InitInclude ==
    /\ \E blocks \in SeqsUpTo(IncludeBlocks, MaxBody) :
          blocks # <<>> /\ source_code = JoinLines(Concat(blocks))
    /\ search_folders \in {<<SourceFolder>>, <<Tail(SourceFolder)>>,
                           <<SourceFolder, SourceFolder>>}
    /\ config_params = <<>>
    /\ config = OrderedDict
    /\ call = NoCall

IncludeSourceFromNodes ==
    /\ call.op = "init"
    /\ LET Returns(res, step) ==
              /\ call' = [op |-> "include_source_from_nodes",
                          source |-> source_code, res |-> res, step |-> step]
              /\ source_code' = IF res.ok THEN res.val ELSE source_code
       IN Returns(include_source_from_nodes(source_code, search_folders),
                  IncludeSourceStep(source_code, search_folders))
    /\ UNCHANGED <<config_params, config, search_folders>>

NextInclude == IncludeSourceFromNodes

SpecInclude == InitInclude /\ [][NextInclude]_vars

\* some statement of the tree, at any depth, is an include-source directive
RECURSIVE HasIncludeSource(_)
HasIncludeSource(body) ==
    \E i \in 1..Len(body) :
        \/ /\ body[i].kind = "Expr"
           /\ body[i].value.kind = "Call"
           /\ body[i].value.func = "IncludeSource"
        \/ HasIncludeSource(body[i].body)

\* every unit a directive can name is found in the search folders
Resolves ==
    \A P \in {<<"p">>, <<"q">>} :
        find_module_source(Matching(search_folders, PyParamModule("derived", P, <<>>))).ok

\* C13: when every unit resolves, inclusion ends in a text without any
\* include-source directive statement, at module level, in a function
\* body or in a class body
C13_Original ==
    call.op = "include_source_from_nodes" /\ Resolves
    => call.res.ok /\ ~HasIncludeSource(ast_parse(call.res.val))

-----------------------------------------------------------------------------
(* Derivation: update_modules_pyparams and derive_module *)

\* named_nodes[key] of get_source_params_assignments: the node of the last
\* include with that full name
NamedModuleNode(nodes, includes, key) ==
    nodes[CHOOSE i \in 1..Len(includes) :
        /\ module_full_name(includes[i]) = key
        /\ \A j \in (i+1)..Len(includes) : module_full_name(includes[j]) # key]

\* PyParamModule.render_as_ast_node: the text of the IncludeModule call
module_render_as_ast_node(m) == RawText(ModuleCallText("IncludeModule", m.path, m.scope))

\* the ASTTransformer of update_modules_pyparams: visit_AnnAssign, and
\* generic_visit for every other node
RECURSIVE ModuleASTTransformer(_, _, _)
ModuleASTTransformer(body, path, node_to_param) ==
    [i \in 1..Len(body) |->
        LET node == body[i]
            p == path \o <<i>>
        IN IF node.kind = "AnnAssign"
           THEN IF MapHasNode(node_to_param, p)
                THEN [node EXCEPT !.value =
                        module_render_as_ast_node(MapByNode(node_to_param, p))]
                ELSE node
           ELSE IF HasBody(node)
           THEN [node EXCEPT !.body = ModuleASTTransformer(node.body, p, node_to_param)]
           ELSE node]

update_modules_pyparams(source, new_includes) ==
    LET Transform(source_code_module, nodes, parsed) ==
            IF ~parsed.ok THEN parsed
            ELSE LET includes == parsed.val
                     node_to_config_param ==
                        [i \in 1..Min(Len(includes), Len(new_includes)) |->
                            [node |-> NamedModuleNode(nodes, includes,
                                                      module_full_name(includes[i])),
                             param |-> new_includes[i]]]
                 IN Ok(astor_to_source(
                           ModuleASTTransformer(source_code_module, <<>>,
                                                node_to_config_param)))
        Assignments(source_code_module, nodes) ==
            Transform(source_code_module, nodes, ModulesFromAstNodes(nodes))
        Parsed(source_code_module) ==
            Assignments(source_code_module,
                        find_pyparams_assignments_nodes(source_code_module, <<>>,
                                                        "IncludeModule"))
    IN Parsed(ast_parse(source))

\* lines 113-124 of derive_module: each include of the base, or the first
\* replacement of the same name
DerivedModules(parsed_modules_list, modules_to_derive) ==
    [i \in 1..Len(parsed_modules_list) |->
        LET same == {j \in 1..Len(modules_to_derive) :
                        modules_to_derive[j].name = parsed_modules_list[i].name}
        IN IF same = {} THEN parsed_modules_list[i]
           ELSE modules_to_derive[CHOOSE j \in same : \A k \in same : j <= k]]

derive_module(source, folders) ==
    LET Update(modules_to_derive, new_source, parsed_modules_list) ==
            IF ~parsed_modules_list.ok THEN parsed_modules_list
            ELSE update_modules_pyparams(
                     new_source.val,
                     DerivedModules(parsed_modules_list.val, modules_to_derive.val))
        Included(modules_to_derive, new_source) ==
            IF ~new_source.ok THEN new_source
            ELSE Update(modules_to_derive, new_source,
                        get_all_modules_from_source_code(ast_parse(new_source.val),
                                                         "IncludeModule"))
        Found(modules_to_derive, found) ==
            IF ~found.ok THEN found
            ELSE Included(modules_to_derive,
                          include_source_from_nodes(found.val, folders))
        Replacements(name, modules_to_derive) ==
            IF ~modules_to_derive.ok THEN modules_to_derive
            ELSE Found(modules_to_derive,
                       find_module_source(
                           Matching(folders,
                                    PyParamModule("derived", name.val, <<>>))))
        Named(name) ==
            IF ~name.ok THEN name
            ELSE Replacements(name,
                              get_all_modules_from_source_code(ast_parse(source),
                                                               "ReplaceModule"))
    IN IF ~Contains(source, "DeriveModule") THEN Ok(source)
       ELSE Named(derive_module_name(source))

-----------------------------------------------------------------------------
(* State machine of derivation: a deriving source of a few lines and one  *)
(* search folder that holds the base unit                                  *)

\* "N: Module = func(path='P', scope='S')"
ModuleLine(N, func, P, S) ==
    <<N, ":", " ", "Module", " ", "=", " ">> \o ModuleCallText(func, P, S)

DeriveLines ==
    {DeriveText(<<"base">>),
     <<"from", " ", "pyparams", " ", "import", " ", "DeriveModule">>,
     <<"m", " ", "=", " ", "pyparams", ".">> \o DeriveText(<<"base">>),
     ModuleLine("net", "ReplaceModule", <<"c">>, <<"q">>),
     ModuleLine("opt", "ReplaceModule", <<"c">>, <<>>),
     PlainLine("x", 1)}

\* the texts of the base unit: two includes; the same with a second
\* include named net inside a function; an include assigned without an
\* annotation
BaseUnits ==
    {JoinLines(<<ModuleLine("net", "IncludeModule", <<"a">>, <<"s">>),
                 ModuleLine("opt", "IncludeModule", <<"b">>, <<>>)>>),
     JoinLines(<<ModuleLine("net", "IncludeModule", <<"a">>, <<"s">>),
                 ModuleLine("opt", "IncludeModule", <<"b">>, <<>>),
                 <<"def", " ", "f", "(", ")", ":">>,
                 Spaces(2) \o ModuleLine("net", "IncludeModule", <<"a">>, <<"t">>)>>),
     JoinLines(<<<<"net", " ", "=", " ">> \o ModuleCallText("IncludeModule", <<"a">>, <<"s">>)>>)}

InitDerive ==
    /\ \E lines \in SeqsUpTo(DeriveLines, MaxLines) :
          lines # <<>> /\ source_code = JoinLines(lines)
    /\ \E base \in BaseUnits : search_folders = <<<<File(<<"base", ".py">>, base)>>>>
    /\ config_params = <<>>
    /\ config = OrderedDict
    /\ call = NoCall

DeriveModule ==
    /\ call.op = "init"
    /\ LET Returns(res) ==
              /\ call' = [op |-> "derive_module", source |-> source_code,
                          res |-> res]
              /\ source_code' = IF res.ok THEN res.val ELSE source_code
       IN Returns(derive_module(source_code, search_folders))
    /\ UNCHANGED <<config_params, config, search_folders>>

NextDerive == DeriveModule

SpecDerive == InitDerive /\ [][NextDerive]_vars

\* the derive directives of a text: its lines that call DeriveModule
DeriveDirectives(source) ==
    {i \in 1..Len(SplitLines(source)) :
        IsInfix(DeriveText(<<"base">>), SplitLines(source)[i])}

OnlyOnce == <<"DeriveModule can be used only once in the code">>

\* C11: derive_module fails when the source holds more than one derive
\* directive, and not for that reason when it holds exactly one, however
\* else the marker is mentioned in the text
C11_Original ==
    call.op = "derive_module"
    => /\ Cardinality(DeriveDirectives(call.source)) > 1 => ~call.res.ok
       /\ Cardinality(DeriveDirectives(call.source)) = 1
             => call.res.ok \/ call.res.err.key # OnlyOnce

\* the includes a text declares, in order
IncludesOf(source) ==
    get_all_modules_from_source_code(ast_parse(source), "IncludeModule").val

\* the replacement directives of a text, in order
ReplacementsOf(source) ==
    get_all_modules_from_source_code(ast_parse(source), "ReplaceModule").val

\* C12: the includes of the derived text are the includes of the base
\* unit, in order and under their local names, each with the path and
\* scope of the replacement directive of the same name if there is one
C12_Original ==
    call.op = "derive_module" /\ call.res.ok /\ Contains(call.source, "DeriveModule")
    => LET base == IncludesOf(search_folders[1][1].text)
           replace == ReplacementsOf(call.source)
           out == IncludesOf(call.res.val)
       IN /\ Len(out) = Len(base)
          /\ \A i \in 1..Len(base) :
                /\ out[i].name = base[i].name
                /\ IF \E j \in 1..Len(replace) : replace[j].name = base[i].name
                   THEN \E j \in 1..Len(replace) :
                           /\ replace[j].name = base[i].name
                           /\ out[i].path = replace[j].path
                           /\ out[i].scope = replace[j].scope
                   ELSE out[i].path = base[i].path /\ out[i].scope = base[i].scope

-----------------------------------------------------------------------------
(* Module includes: encapsulate_source_with_class and include_modules *)

\* the names that start with an underscore
Underscored == {"_h", "__init__"}

\* the class an include is wrapped into: "_pyparam_module__" + name
ClassName(m) == "_pyparam_module__" \o m.name

\* PyParamModule.value: the text of the constructor call
module_value(m) == <<ClassName(m), "(", ")">>

\* the include as compile_source_code_from_configs_list takes it: a named
\* parameter whose to_ast_node is value_to_ast_node(self.value, type)
ModuleParam(m) ==
    [name |-> m.name,
     param |-> [value |-> Value("type", module_value(m)), dtype |-> "type",
                scope |-> m.scope, desc |-> ""]]

RECURSIVE find_function_def_nodes(_)
find_function_def_nodes(body) ==
    Concat([i \in 1..Len(body) |->
        IF body[i].kind = "FunctionDef"
        THEN <<body[i]>> \o find_function_def_nodes(body[i].body)
        ELSE <<>>])

encapsulate_source_with_class(m, module_src) ==
    LET Class(nodes) ==
            LET defined_functions == [i \in 1..Len(nodes) |-> nodes[i].target]
                lines == SplitLines(module_src)
                IND == COMPILED_SOURCE_INDENTATION
                public == SelectSeq(defined_functions, LAMBDA f : f \notin Underscored)
            IN JoinLines(
                   <<<<"class", " ">> \o module_value(m) \o <<":">>,
                     IND \o <<"def", " ", "__init__", "(", "self", ")", ":">> >>
                   \o [i \in 1..Len(lines) |-> IND \o IND \o lines[i]]
                   \o [i \in 1..Len(public) |->
                         IND \o IND \o <<"self", ".", public[i], " ", "=", " ",
                                         public[i]>>])
    IN Class(find_function_def_nodes(ast_parse(module_src)))

Dashes == [i \in 1..BANNER_WIDTH |-> "-"]

\* lines 338-348 of include_modules: the text of the unit of one include,
\* re-scoped if the include has a scope, wrapped into its class
ImportedSource(m, folders) ==
    LET Updated(updated) ==
            IF ~updated.ok THEN updated
            ELSE Ok(encapsulate_source_with_class(m, astor_to_source(updated.val)))
        Scoped(tree, pyparams) ==
            IF ~pyparams.ok THEN pyparams
            ELSE Updated(update_source_pyparams(tree,
                                                add_scope(m.scope, pyparams.val)))
        Parsed(tree) == Scoped(tree, get_all_pyparams_from_source_code(tree))
        Found(found) ==
            IF ~found.ok THEN found
            ELSE IF m.scope = <<>>
            THEN Ok(encapsulate_source_with_class(m, found.val))
            ELSE Parsed(ast_parse(found.val))
    IN Found(find_module_source(Matching(folders, m)))

\* the loop of include_modules over modules_list: imported_modules
RECURSIVE ImportedModules(_, _)
ImportedModules(modules_list, folders) ==
    LET Imported(m, src, rest) ==
            IF ~src.ok THEN src
            ELSE IF ~rest.ok THEN rest
            ELSE Ok(<<NL, "\"\"\"", NL>> \o Dashes
                    \o <<NL, "PyParams:", NL, "\t", "auto import of ", BQ>> \o m.path
                    \o <<BQ, NL, "\t", "used by: ", BQ, m.name, BQ, BQ, NL>>
                    \o Dashes \o <<NL, "\"\"\"", NL>> \o src.val \o rest.val)
    IN IF modules_list = <<>> THEN Ok(<<>>)
       ELSE Imported(Head(modules_list),
                     ImportedSource(Head(modules_list), folders),
                     ImportedModules(Tail(modules_list), folders))

\* compile_source_code_from_configs_list(source_code, modules_list,
\* assigment_op_name="IncludeModule", ast_parser=PyParamModule)
compile_modules_from_configs_list(source, modules_list) ==
    LET Rendered(compiled) ==
            IF compiled.ok THEN Ok(astor_to_source(compiled.val)) ELSE compiled
        Compile(tree, nodes, parsed) ==
            IF ~parsed.ok THEN parsed
            ELSE Rendered(to_source(DefaultASTTransformer(tree, <<>>,
                    [i \in 1..Len(modules_list) |->
                        [node |-> NamedModuleNode(nodes, parsed.val,
                                                  module_full_name(modules_list[i])),
                         param |-> ModuleParam(modules_list[i])]])))
        Assignments(tree, nodes) == Compile(tree, nodes, ModulesFromAstNodes(nodes))
        Parsed(tree) ==
            Assignments(tree,
                        find_pyparams_assignments_nodes(tree, <<>>, "IncludeModule"))
    IN Parsed(ast_parse(source))

include_modules(source, folders) ==
    LET Code(imported_modules, compiled_source_code) ==
            IF ~imported_modules.ok THEN imported_modules
            ELSE IF ~compiled_source_code.ok THEN compiled_source_code
            ELSE Ok(imported_modules.val \o <<NL, "\"\"\"", NL>> \o Dashes
                    \o <<NL, "\"\"\"", NL>> \o compiled_source_code.val)
        Modules(included, modules_list) ==
            IF ~modules_list.ok THEN modules_list
            ELSE IF modules_list.val = <<>> THEN included
            ELSE Code(ImportedModules(modules_list.val, folders),
                      compile_modules_from_configs_list(included.val,
                                                        modules_list.val))
        Included(included) ==
            IF ~included.ok THEN included
            ELSE Modules(included,
                         get_all_modules_from_source_code(ast_parse(included.val),
                                                          "IncludeModule"))
        Derived(derived) ==
            IF ~derived.ok THEN derived
            ELSE Included(include_source_from_nodes(
                              <<"from", " ", "pyparams", " ", "import", " ",
                                "Module", NL>> \o derived.val, folders))
    IN Derived(derive_module(source, folders))

-----------------------------------------------------------------------------
(* State machine of module includes: a working source of a few blocks and *)
(* one search folder that holds the unit u                                 *)

PassLine == <<"pass">>

DefLine(name) == <<"def", " ", name, "(", ")", ":">>

\* "x: int = PyParam(1, int, 'p')"
ParamLine == <<"x", ":", " ", "int", " ", "=", " ", "PyParam", "(", "1", ",", " ",
               "int", ",", " ", "'", "p", "'", ")">>

\* the texts of the unit u: an annotated parameter and a function; a plain
\* parameter, a function with a nested function and a private function;
\* an annotated parameter and a class with a method
Units ==
    {JoinLines(<<ParamLine, DefLine("f"), Spaces(2) \o PassLine>>),
     JoinLines(<<<<"y", " ", "=", " ", "PyParam", "(", "2", ")">>,
                 DefLine("f"), Spaces(2) \o DefLine("g"), Spaces(4) \o PassLine,
                 DefLine("_h"), Spaces(2) \o PassLine>>),
     JoinLines(<<ParamLine, <<"class", " ", "K", ":">>,
                 Spaces(2) \o DefLine("m"), Spaces(4) \o PassLine>>)}

ModuleBlocks ==
    {<<ModuleLine("a", "IncludeModule", <<"u">>, <<"s1">>)>>,
     <<ModuleLine("b", "IncludeModule", <<"u">>, <<"s2">>)>>,
     <<ModuleLine("c", "IncludeModule", <<"u">>, <<>>)>>,
     <<<<"def", " ", "k", "(", "n", "=", "5", ")", ":">>, Spaces(2) \o PassLine>>,
     <<PlainLine("x", 1)>>}

InitModules ==
    /\ \E blocks \in SeqsUpTo(ModuleBlocks, MaxBody) :
          blocks # <<>> /\ source_code = JoinLines(Concat(blocks))
    /\ \E unit \in Units : search_folders = <<<<File(<<"u", ".py">>, unit)>>>>
    /\ config_params = <<>>
    /\ config = OrderedDict
    /\ call = NoCall

IncludeModules ==
    /\ call.op = "init"
    /\ LET Returns(res) ==
              /\ call' = [op |-> "include_modules", source |-> source_code,
                          res |-> res]
              /\ source_code' = IF res.ok THEN res.val ELSE source_code
       IN Returns(include_modules(source_code, search_folders))
    /\ UNCHANGED <<config_params, config, search_folders>>

\* PyParamModule("a", "u").encapsulate_source_with_class on the unit's text
EncapsulateSourceWithClass ==
    /\ call.op = "init"
    /\ call' = [op |-> "encapsulate_source_with_class",
                source |-> search_folders[1][1].text,
                res |-> Ok(encapsulate_source_with_class(
                               PyParamModule("a", <<"u">>, <<>>),
                               search_folders[1][1].text))]
    /\ UNCHANGED <<config_params, source_code, config, search_folders>>

NextModules == IncludeModules \/ EncapsulateSourceWithClass

SpecModules == InitModules /\ [][NextModules]_vars

\* the source include_modules works on when the text has no derive
\* directive and no include-source directive
WorkingSource(source) ==
    <<"from", " ", "pyparams", " ", "import", " ", "Module", NL>> \o source

\* the tree with the value of each include declaration replaced by the
\* constructor call of its class
RECURSIVE ReplacedIncludes(_)
ReplacedIncludes(body) ==
    [i \in 1..Len(body) |->
        IF /\ body[i].kind = "AnnAssign"
           /\ body[i].value.kind = "Call"
           /\ body[i].value.func = "IncludeModule"
        THEN [body[i] EXCEPT !.value =
                RawText(module_value(PyParamModule(body[i].target, <<>>, <<>>)))]
        ELSE [body[i] EXCEPT !.body = ReplacedIncludes(body[i].body)]]

\* the lines "class _pyparam_module__<name>():" of a text, in order
ClassLines(text) ==
    SelectSeq(SplitLines(text), LAMBDA line : Len(line) > 0 /\ line[1] = "class"
                                              /\ Indent(line) = 0)

EndsWith(text, tail) ==
    /\ Len(tail) <= Len(text)
    /\ SubSeq(text, Len(text) - Len(tail) + 1, Len(text)) = tail

\* C14: the output of include_modules is, for each include in order, a
\* banner and the class _pyparam_module__<name> around the unit's text,
\* then the working source with the value of each include declaration
\* replaced by _pyparam_module__<name>()
C14_Original ==
    call.op = "include_modules"
    => LET working == WorkingSource(call.source)
           includes == IncludesOf(working)
           tail == astor_to_source(ReplacedIncludes(ast_parse(working)))
       IN /\ call.res.ok
          /\ includes = <<>> => call.res.val = working
          /\ includes # <<>> =>
                /\ EndsWith(call.res.val, tail)
                /\ LET head == SubSeq(call.res.val, 1, Len(call.res.val) - Len(tail))
                   IN ClassLines(head) =
                         [i \in 1..Len(includes) |->
                             <<"class", " ">> \o module_value(includes[i]) \o <<":">>]

\* the statements inside the class of an include in an output text
CopyOf(text, name) ==
    LET classes == SelectSeq(ast_parse(text), LAMBDA st :
                       st.kind = "ClassDef" /\ st.target = "_pyparam_module__" \o name)
    IN IF classes = <<>> THEN <<>> ELSE classes[1].body[1].body

\* the parameters a tree declares
DeclaredParams(tree) == get_all_pyparams_from_source_code(tree).val

\* C15: a unit included twice under different names and different
\* non-empty scopes gives two classes, every parameter of a copy has the
\* scope of its include in front of its own, and the full names of the
\* two copies are disjoint
C15_Original ==
    /\ call.op = "include_modules"
    /\ call.source = JoinLines(<<ModuleLine("a", "IncludeModule", <<"u">>, <<"s1">>),
                                 ModuleLine("b", "IncludeModule", <<"u">>, <<"s2">>)>>)
    => LET orig == DeclaredParams(ast_parse(search_folders[1][1].text))
           copy_a == DeclaredParams(CopyOf(call.res.val, "a"))
           copy_b == DeclaredParams(CopyOf(call.res.val, "b"))
       IN /\ call.res.ok
          /\ Len(copy_a) = Len(orig) /\ Len(copy_b) = Len(orig)
          /\ \A i \in 1..Len(orig) :
                /\ copy_a[i].param.scope = <<"s1", SEP>> \o orig[i].param.scope
                /\ copy_b[i].param.scope = <<"s2", SEP>> \o orig[i].param.scope
          /\ Range(FullNames(copy_a)) \cap Range(FullNames(copy_b)) = {}

FunctionNames == {"f", "g", "_h", "m"}

\* the functions a wrapped text binds on self
BoundNames(text) ==
    {f \in FunctionNames :
        \E i \in 1..Len(SplitLines(text)) :
            Strip(SplitLines(text)[i]) = <<"self", ".", f, " ", "=", " ", f>>}

\* C16: the wrapper binds on self exactly the top-level functions of the
\* unit whose names do not start with an underscore
C16_Original ==
    call.op = "encapsulate_source_with_class"
    => BoundNames(call.res.val) =
          {f \in FunctionNames \ Underscored :
              \E i \in 1..Len(ast_parse(call.source)) :
                  /\ ast_parse(call.source)[i].kind = "FunctionDef"
                  /\ ast_parse(call.source)[i].target = f}

-----------------------------------------------------------------------------
(* Document files.  The text of a YAML file is a sequence of characters,    *)
(* because convert_desc_field_to_comment indexes a line by column.          *)

YAML_CONFIG_INDENTATION == 4

\* the characters of the words the documents of the model are written with
Spell(word) ==
    CASE word = "x" -> <<"x">>
      [] word = "d" -> <<"d">>
      [] word = "desc" -> <<"d", "e", "s", "c">>
      [] word = "dtype" -> <<"d", "t", "y", "p", "e">>
      [] word = "value" -> <<"v", "a", "l", "u", "e">>
      [] word = "loop" -> <<"l", "o", "o", "p">>
      [] word = "version" -> <<"v", "e", "r", "s", "i", "o", "n">>
      [] word = "int" -> <<"i", "n", "t">>
      [] word = "str" -> <<"s", "t", "r">>

\* the characters \w of a regular expression does not match
NonWord == {" ", ":", "#", "'", "{", "}", NL}

\* line.index(word), for a word the line holds
Index(line, word) ==
    (CHOOSE i \in 1..(Len(line) - Len(word) + 1) :
        /\ SubSeq(line, i, i + Len(word) - 1) = word
        /\ \A j \in 1..(i-1) : SubSeq(line, j, j + Len(word) - 1) # word) - 1

\* line[i:]
Slice(line, i) == IF i >= Len(line) THEN <<>> ELSE SubSeq(line, i + 1, Len(line))

\* line.replace(word, "")
RECURSIVE Remove(_, _)
Remove(line, word) ==
    IF Len(line) < Len(word) THEN line
    ELSE IF SubSeq(line, 1, Len(word)) = word
    THEN Remove(Slice(line, Len(word)), word)
    ELSE <<Head(line)>> \o Remove(Tail(line), word)

\* the line matches ^[ ]*word
LineStarts(line, word) ==
    /\ Len(line) >= Indent(line) + Len(word)
    /\ SubSeq(line, Indent(line) + 1, Indent(line) + Len(word)) = word

\* the line matches ^[ ]*(\w+):
IsKeyLine(line) ==
    LET rest == Slice(line, Indent(line))
    IN \E n \in 1..(Len(rest) - 1) :
          /\ \A j \in 1..n : rest[j] \notin NonWord
          /\ rest[n + 1] = ":"

DESC_FIELD == Spell("desc") \o <<":">>

DTYPE_FIELD == Spell("dtype") \o <<":">>

\* the comments written for the collected desc_lines
DescComments(desc_lines, indent) ==
    LET idx == Index(desc_lines[1], DESC_FIELD)
    IN [row \in 1..Len(desc_lines) |->
          LET desc_line == Remove(desc_lines[row], DESC_FIELD)
          IN IF row = 1
             THEN Spaces(idx) \o <<"#">> \o Slice(desc_line, idx)
             ELSE Spaces(idx) \o <<"#">> \o Slice(desc_line, idx + indent - 1)]

\* the loop of convert_desc_field_to_comment over the lines left, with the
\* new_lines and the desc_lines collected so far
RECURSIVE DescPass(_, _, _, _)
DescPass(lines, new_lines, desc_lines, indent) ==
    IF lines = <<>> THEN Ok(new_lines)
    ELSE LET line == Head(lines)
         IN IF LineStarts(line, DESC_FIELD)
            THEN DescPass(Tail(lines), new_lines, Append(desc_lines, line), indent)
            ELSE IF desc_lines = <<>>
            THEN DescPass(Tail(lines), Append(new_lines, line), desc_lines, indent)
            ELSE LET desc_start_column == Index(desc_lines[1], DESC_FIELD)
                 IN IF desc_start_column + indent > Len(line)
                    THEN Raise("IndexError", line, <<>>)
                    ELSE IF line[desc_start_column + indent] = " "
                    THEN DescPass(Tail(lines), new_lines,
                                  Append(desc_lines, line), indent)
                    ELSE DescPass(Tail(lines),
                                  new_lines \o DescComments(desc_lines, indent)
                                            \o <<line>>,
                                  <<>>, indent)

convert_desc_field_to_comment(pyparam_yaml_config, indent) ==
    LET Joined(r) == IF r.ok THEN Ok(JoinLines(r.val)) ELSE r
    IN Joined(DescPass(SplitLines(pyparam_yaml_config), <<>>, <<>>, indent))

\* the place after line ln of the first line that matches ^[ ]*dtype:,
\* 0 if there is none
DtypeLineAfter(all_lines, ln) ==
    IF \E m \in (ln + 1)..Len(all_lines) : LineStarts(all_lines[m], DTYPE_FIELD)
    THEN CHOOSE m \in (ln + 1)..Len(all_lines) :
            /\ LineStarts(all_lines[m], DTYPE_FIELD)
            /\ \A j \in (ln + 1)..(m - 1) : ~LineStarts(all_lines[j], DTYPE_FIELD)
    ELSE 0

\* the loop of convert_comment_to_desc_field from line ln on; all_lines[-1]
\* is the last line
RECURSIVE CommentPass(_, _, _)
CommentPass(all_lines, ln, new_lines) ==
    IF ln > Len(all_lines) THEN Ok(new_lines)
    ELSE LET line == all_lines[ln]
             before == IF ln = 1 THEN Last(all_lines) ELSE all_lines[ln - 1]
         IN IF ~LineStarts(line, <<"#", " ">>)
            THEN CommentPass(all_lines, ln + 1, Append(new_lines, line))
            ELSE IF ~IsKeyLine(before)
            THEN CommentPass(all_lines, ln + 1, new_lines)
            ELSE LET m == DtypeLineAfter(all_lines, ln)
                 IN IF m = 0 THEN Raise("IndexError", line, <<>>)
                    ELSE LET desc_start_column == Index(all_lines[m], DTYPE_FIELD)
                             commented_lines ==
                                [n \in 1..(m - ln) |->
                                   Slice(all_lines[ln + n - 1], desc_start_column + 1)]
                             desc_line == Spaces(desc_start_column) \o DESC_FIELD
                                          \o Concat(commented_lines)
                         IN CommentPass(all_lines, ln + 1,
                                        Append(new_lines, desc_line))

convert_comment_to_desc_field(pyparam_yaml_config) ==
    LET Joined(r) == IF r.ok THEN Ok(JoinLines(r.val)) ELSE r
    IN Joined(CommentPass(SplitLines(pyparam_yaml_config), 1, <<>>))

\* the YAML text of a scalar value
ValueText(v) ==
    LET digits == IF v.val = 1 THEN <<"1">> ELSE <<"2">>
    IN IF v.type = "str" THEN <<"'">> \o digits \o <<"'">> ELSE digits

\* the lines yaml.dump writes for the dict of one parameter, its keys sorted
LeafLines(rec, depth) ==
    LET pad == Spaces(YAML_CONFIG_INDENTATION * depth)
    IN (IF rec.desc = "" THEN <<>>
        ELSE <<pad \o DESC_FIELD \o <<" ">> \o Spell(rec.desc)>>)
       \o <<pad \o DTYPE_FIELD \o <<" ">> \o Spell(rec.dtype),
            pad \o Spell("value") \o <<":", " ">> \o ValueText(rec.value)>>

\* the lines yaml.dump writes for the items of an OrderedDict, in their order
RECURSIVE DumpItems(_, _)
DumpItems(kids, depth) ==
    IF kids = <<>> THEN <<>>
    ELSE LET key == Head(kids).key
             node == Head(kids).val
             key_line == Spaces(YAML_CONFIG_INDENTATION * depth)
                         \o Concat([i \in 1..Len(key) |-> Spell(key[i])]) \o <<":">>
         IN <<key_line>>
            \o (IF node.leaf THEN LeafLines(node.rec, depth + 1)
                ELSE DumpItems(node.kids, depth + 1))
            \o DumpItems(Tail(kids), depth)

\* yaml.dump(data, indent=4, default_flow_style=False): block mappings, one
\* line per key, a newline after the last one
yaml_dump(data) ==
    IF data.kids = <<>> THEN <<"{", "}", NL>>
    ELSE JoinLines(DumpItems(data.kids, 0)) \o <<NL>>

(* The two conversions as a state machine: a document is dumped, its desc   *)
(* fields are turned into comments, and the comments are read back.         *)

DescNames == {"x", "desc"}

DescUniverse ==
    { NamedPyParam(n, PyParam(r.value, r.dtype, sc, r.desc)) :
        n \in DescNames, sc \in Scopes, r \in Records }

InitDesc ==
    /\ config_params \in SeqsUpTo(DescUniverse, MaxParams)
    /\ source_code = EmptyModule
    /\ config = yaml_dump(params_to_yaml_config(config_params))
    /\ search_folders = <<>>
    /\ call = NoCall

ConvertDescFieldToComment ==
    /\ call.op = "init"
    /\ LET Returns(r) ==
              /\ call' = [op |-> "convert_desc_field_to_comment",
                          source |-> config, document |-> config, res |-> r]
              /\ config' = IF r.ok THEN r.val ELSE config
       IN Returns(convert_desc_field_to_comment(config, YAML_CONFIG_INDENTATION))
    /\ UNCHANGED <<config_params, source_code, search_folders>>

ConvertCommentToDescField ==
    /\ call.op = "convert_desc_field_to_comment"
    /\ call.res.ok
    /\ LET Returns(r) ==
              /\ call' = [op |-> "convert_comment_to_desc_field",
                          source |-> config, document |-> call.document, res |-> r]
              /\ config' = IF r.ok THEN r.val ELSE config
       IN Returns(convert_comment_to_desc_field(config))
    /\ UNCHANGED <<config_params, source_code, search_folders>>

NextDesc == ConvertDescFieldToComment \/ ConvertCommentToDescField

SpecDesc == InitDesc /\ [][NextDesc]_vars

\* what a YAML parser reads of a block document: its lines but the blank
\* ones and the comments
Entries(text) ==
    SelectSeq(SplitLines(text),
              LAMBDA line : Slice(line, Indent(line)) # <<>>
                            /\ ~LineStarts(line, <<"#">>))

\* C19: for any document, whatever its description texts and its parameter
\* names, convert_comment_to_desc_field applied to the output of
\* convert_desc_field_to_comment gives a document that parses to the same
\* hierarchical mapping, with the same desc on every entry and no entry
\* gained or lost
C19_Original ==
    /\ call.op = "convert_desc_field_to_comment" => call.res.ok
    /\ call.op = "convert_comment_to_desc_field" =>
          call.res.ok /\ Entries(call.res.val) = Entries(call.document)

-----------------------------------------------------------------------------
(* Output files.  In this machine config is the output file: whether it     *)
(* exists and its text.  config_params is the list of the main document.    *)

OutputFile(exists, text) == [exists |-> exists, text |-> text]

NoFile == OutputFile(FALSE, <<>>)

\* open(save_file_path, "w"): the file exists and is empty
OpenForWriting == OutputFile(TRUE, <<>>)

\* pyparams_ordered_yaml_dump(data, stream): what the stream holds after it,
\* and the result of the call
pyparams_ordered_yaml_dump(data, stream) ==
    LET Write(yaml_string) ==
            IF yaml_string.ok
            THEN [file |-> OutputFile(TRUE, stream.text \o yaml_string.val),
                  res |-> Ok(<<>>)]
            ELSE [file |-> stream, res |-> yaml_string]
    IN Write(convert_desc_field_to_comment(yaml_dump(data),
                                           YAML_CONFIG_INDENTATION))

\* params_to_yaml_config(config_params, save_file_path): the file is opened
\* once the tree is built, and the dump runs inside the with block
WriteYamlConfig(params) ==
    LET params_tree == params_to_yaml_config(params)
    IN pyparams_ordered_yaml_dump(params_tree, OpenForWriting)

\* the params of the document a list was saved as
ReadParams(params) ==
    read_params_from_config(read_yaml_file(params_to_yaml_config(params)))

\* "key in param.full_name" for the keys of the model, none of which is
\* part of another word
KeyIn(key, param) == Contains(full_name(param), key)

\* substitute_config(old, new, output, ignore_missing_keys, selected_keys),
\* selected_keys = <<>> standing for None: the file after it, and the result
substitute_config(file, old, new, ignore_missing_keys, selected_keys) ==
    LET Save(replaced) ==
            IF ~replaced.ok THEN [file |-> file, res |-> replaced]
            ELSE WriteYamlConfig(replaced.val)
        Replace(old_params, new_params) ==
            IF ~old_params.ok THEN [file |-> file, res |-> old_params]
            ELSE IF ~new_params.ok THEN [file |-> file, res |-> new_params]
            ELSE Save(replace_params(
                          IF selected_keys = <<>> THEN new_params.val
                          ELSE SelectSeq(new_params.val,
                                         LAMBDA param :
                                            \E i \in 1..Len(selected_keys) :
                                               KeyIn(selected_keys[i], param)),
                          old_params.val, ignore_missing_keys))
    IN Replace(ReadParams(old), ReadParams(new))

\* an output file that exists before the operation: an empty document
OldFile == OutputFile(TRUE, yaml_dump(OrderedDict))

InitFiles ==
    /\ config_params \in SeqsUpTo(DescUniverse, MaxParams)
    /\ source_code = EmptyModule
    /\ config \in {NoFile, OldFile}
    /\ search_folders = <<>>
    /\ call = NoCall

ParamsToYamlConfig ==
    LET Returns(w) ==
            /\ call' = [op |-> "params_to_yaml_config", params |-> config_params,
                        before |-> config, res |-> w.res]
            /\ config' = w.file
    IN /\ Returns(WriteYamlConfig(config_params))
       /\ UNCHANGED <<config_params, source_code, search_folders>>

SubstituteConfig ==
    \E new \in SeqsUpTo(DescUniverse, 1), ignore_missing_keys \in BOOLEAN,
       selected_keys \in {<<>>, <<"x">>} :
        LET Returns(w) ==
                /\ call' = [op |-> "substitute_config", params |-> new,
                            before |-> config, res |-> w.res]
                /\ config' = w.file
        IN /\ Returns(substitute_config(config, config_params, new,
                                        ignore_missing_keys, selected_keys))
           /\ UNCHANGED <<config_params, source_code, search_folders>>

NextFiles == ParamsToYamlConfig \/ SubstituteConfig

SpecFiles == InitFiles /\ [][NextFiles]_vars

\* C20: when an operation that writes an output file fails (substitute_config
\* with an unknown key in strict mode, or a failure while building or
\* serializing the document in params_to_yaml_config), the output file has
\* been neither created nor modified
C20_Original ==
    (call.op \in {"params_to_yaml_config", "substitute_config"} /\ ~call.res.ok)
        => config = call.before

-----------------------------------------------------------------------------
(* Claims about sequences of reconciler calls *)

\* C29: a replace_param call, strict or permissive, on a list with pairwise
\* distinct full_names leaves the caller with a list of the same length and
\* the same sequence of full_names (a failed strict call leaving the list as
\* it was); as every call keeps the full_names distinct, so does any
\* sequence of calls
C29_KeepsKeys ==
    [][(call'.op = "replace_param" /\ Distinct(config_params)) =>
          /\ Len(config_params') = Len(config_params)
          /\ FullNames(config_params') = FullNames(config_params)
          /\ Distinct(config_params')]_vars

\* the second entry of a two-entry list was replaced by another record
C29_Witness ==
    /\ call.op = "replace_param"
    /\ Distinct(call.old)
    /\ Len(call.old) = 2
    /\ full_name(call.param) = full_name(call.old[2])
    /\ call.res.ok
    /\ config_params # call.old
    /\ FullNames(config_params) = FullNames(call.old)

\* C28: read_params_from_config, like replace_param, replace_params,
\* get_param and add_scope, is a pure transform: the document tree passed
\* to it compares equal before and after the call
C28_Original ==
    call.op = "read_params_from_config" => config = call.cfg

-----------------------------------------------------------------------------
(* Claims about compiling against a document with unknown keys *)

\* the params of the document that no declaration of the source has
UnknownParams(cfg) ==
    LET Unknown(params) ==
            IF ~params.ok \/ ~SourceParams.ok THEN <<>>
            ELSE SelectSeq(params.val,
                           LAMBDA p : ~Present(full_name(p), SourceParams.val))
    IN Unknown(read_params_from_config(cfg))

\* C30: compiling against a parameter list that holds a full_name no
\* declaration of the source has fails and returns no compiled source; the
\* failure is the lookup of the first such name, before the version is
\* validated and before any node is rewritten
C30_UnknownKey ==
    (call.op = "compile_source_code" /\ UnknownParams(call.cfg) # <<>>) =>
        /\ ~call.res.ok
        /\ call.res.val = <<>>
        /\ call.res.err.type = "KeyError"
        /\ call.res.err.key = full_name(UnknownParams(call.cfg)[1])

\* a compile with validation on, against a document with an unknown root
\* "version", of a source that has no such parameter
C30_Witness ==
    /\ call.op = "compile_source_code"
    /\ call.validate_version
    /\ UnknownParams(call.cfg) # <<>>
    /\ full_name(UnknownParams(call.cfg)[1]) = <<VERSION_PARAM_KEY_NAME>>
    /\ source_code # <<>>
    /\ call.res.err.type = "KeyError"

-----------------------------------------------------------------------------
(* Claims about the shape of the document tree *)

\* no node of the tree is a parameter record that also holds entries
RECURSIVE Unmixed(_)
Unmixed(node) ==
    /\ ~(node.leaf /\ node.kids # <<>>)
    /\ \A n \in 1..Len(node.kids) : Unmixed(node.kids[n].val)

\* C23: in the document tree params_to_yaml_config builds from any
\* parameter list no key is at once a leaf parameter record and a scope
\* node holding other parameters
C23_Original ==
    (call.op = "source_to_yaml_config" /\ call.res.ok) => Unmixed(config)

-----------------------------------------------------------------------------
(* Claims about the scanner *)

\* the expression is a call of the bare marker name
IsMarkerCall(e) == e.kind = "Call" /\ ~e.attr /\ e.func = "PyParam"

\* the sites the scanner finds in the unit
ScannedSites == find_pyparams_assignments_nodes(source_code, <<>>, "PyParam")

\* C22: the scanner treats as a declaration only a call whose callee is the
\* bare marker name; for a call to any other callee, bare or qualified, it
\* searches the values of the keyword arguments, and not the positional
\* arguments, so that a keyword whose value is a marker call yields a
\* declaration named as the keyword
C22_Original ==
    call.op = "source_to_yaml_config" =>
        /\ \A n \in 1..Len(ScannedSites) : IsMarkerCall(ScannedSites[n].value)
        /\ \A i \in 1..Len(source_code) :
              LET element == source_code[i]
              IN ( /\ element.kind \in {"AnnAssign", "Assign"}
                   /\ element.value.kind = "Call"
                   /\ ~IsMarkerCall(element.value) )
                 => /\ \A j \in 1..Len(element.value.keywords) :
                          IsMarkerCall(element.value.keywords[j].value) =>
                             \E n \in 1..Len(ScannedSites) :
                                /\ ScannedSites[n].target = element.value.keywords[j].arg
                                /\ ScannedSites[n].vpath = <<i, 0, j>>
                    /\ \A n \in 1..Len(ScannedSites) :
                          ~( /\ Len(ScannedSites[n].vpath) >= 2
                             /\ ScannedSites[n].vpath[1] = i
                             /\ element.value.keywords = <<>> )

-----------------------------------------------------------------------------
(* Records and the value codec as a state machine: a unit with one          *)
(* declaration, and the document entry with the same fields.                *)

\* the types of the values a declaration or a document entry is written
\* with: the literals ast_node_to_value reads, None and a complex number
\* among them
WrittenTypes ==
    {"int", "float", "str", "bool", "list", "tuple", "dict", "none", "complex"}

\* the dtype as written: a name of _str_to_dtype, another name, or none
WrittenDTypes == DTypes \cup {"none", "complex"}

WrittenRecords ==
    { PyParam(Value(t, v), d, <<>>, "") :
        t \in WrittenTypes, v \in {1, 2}, d \in WrittenDTypes }

InitCodec ==
    /\ \E rec \in WrittenRecords :
          /\ source_code = <<Assign("x", Marker(rec))>>
          /\ config = SetItem(OrderedDict, <<"x">>,
                              [leaf |-> TRUE, has_scope |-> TRUE, rec |-> rec,
                               kids |-> <<>>])
    /\ config_params = <<>>
    /\ search_folders = <<>>
    /\ call = NoCall

\* NamedPyParam.from_ast_node on the declaration of the unit
FromAstNode ==
    /\ call.op = "init"
    /\ call' = [op |-> "from_ast_node",
                res |-> from_ast_node(
                            find_pyparams_assignments_nodes(source_code, <<>>,
                                                            "PyParam")[1])]
    /\ UNCHANGED <<config_params, source_code, config, search_folders>>

\* NamedPyParam.from_dict on the entry of the document
FromDict ==
    /\ call.op = "init"
    /\ call' = [op |-> "from_dict",
                res |-> from_dict(config.kids[1].key[1], config.kids[1].val)]
    /\ UNCHANGED <<config_params, source_code, config, search_folders>>

\* value_to_ast_node(v, type(v)) on the value of the entry
ValueToAstNode ==
    /\ call.op = "init"
    /\ call' = [op |-> "value_to_ast_node",
                value |-> config.kids[1].val.rec.value,
                res |-> value_to_ast_node(config.kids[1].val.rec.value,
                                          config.kids[1].val.rec.value.type)]
    /\ UNCHANGED <<config_params, source_code, config, search_folders>>

NextCodec == FromAstNode \/ FromDict \/ ValueToAstNode

SpecCodec == InitCodec /\ [][NextCodec]_vars

\* C24: every parameter record produced by extraction from source or by
\* document loading has a declared type of the enumeration {int, str, float,
\* tuple, list, dict, set, bool} and a value whose runtime type is that
\* declared type; otherwise the input is rejected with an error
C24_Original ==
    (call.op \in {"from_ast_node", "from_dict"} /\ call.res.ok) =>
        /\ call.res.val.param.dtype \in DTypes
        /\ call.res.val.param.value.type = call.res.val.param.dtype

\* the shapes the codec supports
SupportedShapes == {"int", "float", "str", "bool", "list", "tuple", "dict"}

\* C25: for every value v of a supported shape
\* ast_node_to_value(value_to_ast_node(v, type(v))) equals v, and
\* value_to_ast_node fails for a declared type outside the supported set
C25_Original ==
    call.op = "value_to_ast_node" =>
        IF call.value.type \in SupportedShapes
        THEN /\ call.res.ok
             /\ ast_node_to_value(call.res.val.rec.value) = call.value
        ELSE ~call.res.ok

\* the number of include-source directive statements the scanner finds
Found(lines) ==
    Len(find_ast_expr_nodes(ast_parse(JoinLines(lines)), "IncludeSource"))

\* the lines the scanner finds a directive statement on: the scanner finds
\* one directive less when the line holds another statement
DirectiveLines(lines) ==
    {k \in 1..Len(lines) :
        Found([lines EXCEPT ![k] = Spaces(Indent(lines[k])) \o PlainLine("x", 0)])
            < Found(lines)}

\* the text a step makes of the lines when it replaces line k, a directive
\* that names the unit at include_path
Replaced(lines, k, include_path) ==
    JoinLines(SubSeq(lines, 1, k - 1)
              \o render_include_source_code(
                     Indent(lines[k]), include_path,
                     find_module_source(
                         Matching(search_folders,
                                  PyParamModule("derived", include_path, <<>>))).val)
              \o SubSeq(lines, k + 1, Len(lines)))

\* C26: one step of source inclusion replaces exactly the line of the first
\* include-source directive statement found by the scanner with the
\* banner-wrapped text of the unit it names, indented to the directive's
\* column, and leaves every other line unchanged and in its order
C26_Original ==
    (call.op = "include_source_from_nodes" /\ call.step.spliced) =>
        LET lines == SplitLines(call.step.pre)
            first == CHOOSE k \in DirectiveLines(lines) :
                        \A j \in DirectiveLines(lines) : k <= j
        IN call.step.res.val =
              Replaced(lines, first,
                       find_ast_expr_nodes(ast_parse(call.step.pre),
                                           "IncludeSource")[1].value.path)

-----------------------------------------------------------------------------
(* State machine of composition over units that derive and include: the    *)
(* working source derives a base or includes a unit, and the search folder *)
(* holds the bases base and base2, the unit p and units that include each  *)
(* other in a cycle                                                        *)

ComposeLines ==
    {DeriveText(<<"base">>), DeriveText(<<"base2">>),
     IncludeSourceText(<<"p">>), IncludeSourceText(<<"s">>),
     IncludeSourceText(<<"a">>), PlainLine("y", 2)}

\* the unit s includes itself; the units a and b include each other
CyclicUnits ==
    <<File(<<"s", ".py">>, JoinLines(<<IncludeSourceText(<<"s">>)>>)),
      File(<<"a", ".py">>, JoinLines(<<IncludeSourceText(<<"b">>), PlainLine("v", 1)>>)),
      File(<<"b", ".py">>, JoinLines(<<IncludeSourceText(<<"a">>), PlainLine("v", 2)>>))>>

\* the texts of a base: plain; with an include-source directive; with a
\* derive directive that names the other base
Bases(other) ==
    {JoinLines(<<PlainLine("x", 1)>>),
     JoinLines(<<IncludeSourceText(<<"p">>), PlainLine("x", 1)>>),
     JoinLines(<<DeriveText(other), PlainLine("x", 1)>>)}

InitCompose ==
    /\ \E lines \in SeqsUpTo(ComposeLines, MaxBody) :
          lines # <<>> /\ source_code = JoinLines(lines)
    /\ \E base \in Bases(<<"base2">>), base2 \in Bases(<<"base">>) :
          search_folders = <<<<File(<<"base", ".py">>, base),
                               File(<<"base2", ".py">>, base2),
                               File(<<"p", ".py">>, UnitP)>> \o CyclicUnits>>
    /\ config_params = <<>>
    /\ config = OrderedDict
    /\ call = NoCall

NextCompose == IncludeModules

SpecCompose == InitCompose /\ [][NextCompose]_vars

\* some statement of the tree, at any depth, is a derive directive
RECURSIVE HasDeriveModule(_)
HasDeriveModule(body) ==
    \E i \in 1..Len(body) :
        \/ /\ body[i].kind = "Expr"
           /\ body[i].value.kind = "Call"
           /\ body[i].value.func = "DeriveModule"
        \/ HasDeriveModule(body[i].body)

\* C27: when the base named by a derive directive itself contains a derive
\* directive or include-source directives they are re-resolved, and the
\* text include_modules returns holds no unresolved derive directive and no
\* unresolved include-source directive
C27_Original ==
    (/\ call.op = "include_modules"
     /\ HasDeriveModule(ast_parse(call.source))
     /\ call.res.ok) =>
        /\ ~HasDeriveModule(ast_parse(call.res.val))
        /\ ~HasIncludeSource(ast_parse(call.res.val))

\* the working source has no derive directive and includes, at module
\* level, a unit of a cycle of includes
IncludesCycle(source) ==
    /\ ~Contains(source, "DeriveModule")
    /\ \E i \in 1..Len(ast_parse(source)) :
          /\ ast_parse(source)[i].kind = "Expr"
          /\ ast_parse(source)[i].value.kind = "Call"
          /\ ast_parse(source)[i].value.func = "IncludeSource"
          /\ ast_parse(source)[i].value.path \in {<<"s">>, <<"a">>}

\* C21: composition of a unit whose include graph contains a cycle (a unit
\* that includes itself, or a includes b which includes a) terminates with
\* a cyclic-include error, raised as soon as a unit path is seen twice on
\* the active resolution stack
C21_Original ==
    (call.op = "include_modules" /\ IncludesCycle(call.source)) =>
        /\ ~call.res.ok
        /\ call.res.err.type = "CyclicInclude"

=============================================================================
